---------------------------- MODULE Spec2Model ----------------------------
(***************************************************************************)
(* Model of the AI code-review agent (src/Api/ai_agent): the response      *)
(* parser and the rules loading of CodeAnalyzer, the per-file loop of      *)
(* ReviewGenerator, and the requests served by AIReviewService.            *)
(*                                                                         *)
(* Text is modelled as a sequence of one-character strings, so substring   *)
(* search, split, strip, replace, lower/upper, int() and f-string          *)
(* formatting are computed character by character as Python computes them. *)
(***************************************************************************)
EXTENDS Integers, Sequences, FiniteSets, TLC

VARIABLES
    \* ---- CodeAnalyzer._parse_ai_response
    response,            \* the raw model reply (text)
    file_content,        \* GitHubFileContent handed to the parser
    repository,          \* "owner/repo" (text)
    branch,              \* head ref (text)
    ppc,                 \* position in _parse_ai_response
    lines,               \* response.split('\n')
    line_idx,            \* number of lines already scanned
    current_suggestion,  \* the accumulator dict
    suggestions,         \* the list being returned
    flushed,             \* history: the dicts handed to _create_suggestion_from_dict
    \* ---- ReviewGenerator.generate_review
    pc,                  \* position in generate_review
    pr_number,           \* the pull request reviewed
    pr_files,            \* pr_info.files
    file_idx,            \* number of files of pr_info.files already iterated over
    all_suggestions,     \* the aggregate list
    files_reviewed,      \* the counter
    review_result,       \* what generate_review returned (None: nothing or failure)
    events,              \* history: skips, content fetches, model calls, appends
    \* ---- the process and AIReviewService
    entry_point,         \* "cli": python -m ai_agent; "web": the application of main.py
    credentials,         \* the credentials set in the environment (AIConfig)
    rules_file,          \* the rules document at CUSTOM_RULES_PATH
    custom_rules,        \* CodeAnalyzer.custom_rules (None before construction)
    code_reviews,        \* the rows of the code_reviews table
    svc_request,         \* history: the request served last, with what its collaborators do
    svc_result,          \* what the request served last returned
    svc_calls,           \* history: the collaborator calls made for the request served last
    \* ---- GitHubClient.get_file_diff_with_context
    head_content,        \* what get_file_content returned for the head version
    base_content,        \* what get_file_content returned for the base version
    context_window,      \* the argument context_lines
    diff_result,         \* what get_file_diff_with_context returned
    dpc,                 \* position of the call of get_file_diff_with_context
    \* ---- main.py: github_webhook
    webhook_responses,   \* history: what github_webhook returned, delivery by delivery
    review_tasks         \* the tasks made with asyncio.create_task

parser_vars == <<response, file_content, repository, branch, ppc, lines, line_idx,
                 current_suggestion, suggestions, flushed>>
review_vars == <<pc, pr_number, pr_files, file_idx, all_suggestions, files_reviewed,
                 review_result, events>>
service_vars == <<entry_point, credentials, rules_file, custom_rules, code_reviews,
                  svc_request, svc_result, svc_calls>>
client_vars == <<head_content, base_content, context_window, diff_result, dpc>>
webhook_vars == <<webhook_responses, review_tasks>>
vars == <<parser_vars, review_vars, service_vars, client_vars, webhook_vars>>

-----------------------------------------------------------------------------
(* Bounds of the model *)

\* most physical lines in a model reply
MaxLines == 3
\* most files in a pull request
MaxFiles == 3
\* most webhook deliveries
MaxDeliveries == 2

-----------------------------------------------------------------------------
(* Python str primitives on character sequences *)

UpperAlpha == <<"A","B","C","D","E","F","G","H","I","J","K","L","M","N","O","P","Q","R","S","T","U","V","W","X","Y","Z">>
LowerAlpha == <<"a","b","c","d","e","f","g","h","i","j","k","l","m","n","o","p","q","r","s","t","u","v","w","x","y","z">>
DigitChars == <<"0","1","2","3","4","5","6","7","8","9">>
Whitespace == {" ", "\t", "\n", "\r"}

IndexIn(alpha, c) == CHOOSE k \in 1..Len(alpha) : alpha[k] = c
InAlpha(alpha, c) == \E k \in 1..Len(alpha) : alpha[k] = c

ToLower == [c \in {UpperAlpha[k] : k \in 1..Len(UpperAlpha)} |-> LowerAlpha[IndexIn(UpperAlpha, c)]]
ToUpper == [c \in {LowerAlpha[k] : k \in 1..Len(LowerAlpha)} |-> UpperAlpha[IndexIn(LowerAlpha, c)]]

\* str.lower() / str.upper() (ASCII)
Lower(s) == [k \in 1..Len(s) |-> IF s[k] \in DOMAIN ToLower THEN ToLower[s[k]] ELSE s[k]]
Upper(s) == [k \in 1..Len(s) |-> IF s[k] \in DOMAIN ToUpper THEN ToUpper[s[k]] ELSE s[k]]

\* pat in s
StrContains(s, pat) ==
    \E k \in 0..(Len(s) - Len(pat)) : SubSeq(s, k + 1, k + Len(pat)) = pat

\* s.split(pat, 1)[1], for pat in s
SplitAfter(s, pat) ==
    LET k == CHOOSE j \in 0..(Len(s) - Len(pat)) :
                /\ SubSeq(s, j + 1, j + Len(pat)) = pat
                /\ \A h \in 0..(j - 1) : SubSeq(s, h + 1, h + Len(pat)) # pat
    IN  SubSeq(s, k + Len(pat) + 1, Len(s))

\* s.endswith(suffix)
EndsWith(s, suffix) ==
    /\ Len(suffix) <= Len(s)
    /\ SubSeq(s, Len(s) - Len(suffix) + 1, Len(s)) = suffix

\* s.strip()
Strip(s) ==
    LET keep == {k \in 1..Len(s) : s[k] \notin Whitespace}
    IN  IF keep = {} THEN <<>>
        ELSE LET lo == CHOOSE k \in keep : \A j \in keep : k <= j
                 hi == CHOOSE k \in keep : \A j \in keep : k >= j
             IN  SubSeq(s, lo, hi)

\* s.replace('*', '')
RemoveStars(s) == SelectSeq(s, LAMBDA c : c # "*")

\* s.split('\n')
RECURSIVE SplitLines(_)
SplitLines(s) ==
    IF \A k \in 1..Len(s) : s[k] # "\n" THEN <<s>>
    ELSE LET k == CHOOSE j \in 1..Len(s) : s[j] = "\n" /\ \A h \in 1..(j - 1) : s[h] # "\n"
         IN  <<SubSeq(s, 1, k - 1)>> \o SplitLines(SubSeq(s, k + 1, Len(s)))

\* '\n'.join(ls)
RECURSIVE JoinLines(_)
JoinLines(ls) ==
    IF ls = <<>> THEN <<>>
    ELSE IF Len(ls) = 1 THEN ls[1]
    ELSE ls[1] \o <<"\n">> \o JoinLines(Tail(ls))

\* Optional values: <<>> is None, <<v>> is the value v
None == <<>>
Some(v) == <<v>>

RECURSIVE DigitsValue(_)
DigitsValue(ds) ==
    IF ds = <<>> THEN 0
    ELSE 10 * DigitsValue(SubSeq(ds, 1, Len(ds) - 1)) + (IndexIn(DigitChars, ds[Len(ds)]) - 1)

\* int(s): surrounding whitespace ignored, an optional sign, then digits, single
\* underscores allowed between digits; anything else raises ValueError (None here)
IntParse(s) ==
    LET t == Strip(s)
        signed == t # <<>> /\ t[1] \in {"+", "-"}
        body == IF signed THEN Tail(t) ELSE t
        ds == SelectSeq(body, LAMBDA c : c # "_")
        wellFormed ==
            /\ body # <<>>
            /\ \A k \in 1..Len(body) : InAlpha(DigitChars, body[k]) \/ body[k] = "_"
            /\ body[1] # "_"
            /\ body[Len(body)] # "_"
            /\ \A k \in 1..(Len(body) - 1) : ~ (body[k] = "_" /\ body[k + 1] = "_")
    IN  IF wellFormed
        THEN Some(IF signed /\ t[1] = "-" THEN 0 - DigitsValue(ds) ELSE DigitsValue(ds))
        ELSE None

\* str(n) of an int, as the f-string renders it
RECURSIVE NatToStr(_)
NatToStr(n) ==
    IF n < 10 THEN <<DigitChars[n + 1]>>
    ELSE NatToStr(n \div 10) \o <<DigitChars[(n % 10) + 1]>>

IntToStr(n) == IF n < 0 THEN <<"-">> \o NatToStr(0 - n) ELSE NatToStr(n)

\* Python dict as a function on its keys
EmptyDict == [k \in {} |-> <<>>]
DictPut(d, key, v) == [k \in (DOMAIN d) \cup {key} |-> IF k = key THEN v ELSE d[k]]
DictGet(d, key, default) == IF key \in DOMAIN d THEN d[key] ELSE default


-----------------------------------------------------------------------------
(* ai_agent/models.py *)

\* class SuggestionType(str, Enum): the member values
SuggestionType ==
    { <<"i","m","p","r","o","v","e","m","e","n","t">>, <<"b","u","g">>, <<"s","t","y","l","e">>, <<"s","e","c","u","r","i","t","y">>,
      <<"p","e","r","f","o","r","m","a","n","c","e">>, <<"d","o","c","u","m","e","n","t","a","t","i","o","n">>, <<"t","e","s","t","i","n","g">> }

\* class Severity(str, Enum): the member values
Severity == { <<"l","o","w">>, <<"m","e","d","i","u","m">>, <<"h","i","g","h">>, <<"c","r","i","t","i","c","a","l">> }

\* class GitHubFileContent(BaseModel): the fields the review reads
GitHubFileContent(filename, content) == [filename |-> filename, content |-> content, diff_lines |-> <<>>, context_lines |-> <<>>]

\* class CodeReviewSuggestion(BaseModel)
CodeReviewSuggestion(file_path, line_number, suggestion_type, severity, title, description, suggestion, github_url, rule_applied, context_lines) ==
    [ file_path       |-> file_path,
      line_number     |-> line_number,
      suggestion_type |-> suggestion_type,
      severity        |-> severity,
      title           |-> title,
      description     |-> description,
      suggestion      |-> suggestion,
      github_url      |-> github_url,
      rule_applied    |-> rule_applied,
      context_lines   |-> context_lines ]

-----------------------------------------------------------------------------
(* ai_agent/code_analyzer.py: CodeAnalyzer *)

\* the sentinel the model returns when it finds no issue
CODE_QUALITY_GOOD == <<"C","O","D","E","_","Q","U","A","L","I","T","Y","_","G","O","O","D">>

\* _generate_github_url: "if line_number:" is false for None and for 0
_generate_github_url(repo, br, filename, line_number) ==
    LET base_url == <<"h","t","t","p","s",":","/","/","g","i","t","h","u","b",".","c","o","m","/">> \o repo \o <<"/","b","l","o","b","/">> \o br \o <<"/">> \o filename
    IN  IF line_number # None /\ line_number[1] # 0
        THEN base_url \o <<"#","L">> \o IntToStr(line_number[1])
        ELSE base_url

\* the keys of type_mapping / severity_mapping (each maps a key to itself)
type_mapping == SuggestionType
severity_mapping == Severity

\* mutant: the parsed string is used as it is
NormalizeType_Unchecked(raw) == raw

\* Enum lookup with the except-ValueError fallback through the mapping
NormalizeType(raw) ==
    IF raw \in SuggestionType THEN raw
    ELSE IF raw \in type_mapping THEN raw ELSE <<"i","m","p","r","o","v","e","m","e","n","t">>

NormalizeSeverity(raw) ==
    IF raw \in Severity THEN raw
    ELSE IF raw \in severity_mapping THEN raw ELSE <<"m","e","d","i","u","m">>

\* lines 281-339, the body of the try block: the record built from the dict
SuggestionFromDict(suggestion_dict, fc, repo, br) ==
    LET line_number ==
            IF "line_number" \in DOMAIN suggestion_dict
            THEN IntParse(suggestion_dict["line_number"])
            ELSE None
        github_url == _generate_github_url(repo, br, fc.filename, line_number)
        suggestion_type == NormalizeType(DictGet(suggestion_dict, "type", <<"i","m","p","r","o","v","e","m","e","n","t">>))
        severity == NormalizeSeverity(DictGet(suggestion_dict, "severity", <<"m","e","d","i","u","m">>))
    IN  CodeReviewSuggestion(
            fc.filename,
            line_number,
            suggestion_type,
            severity,
            DictGet(suggestion_dict, "title", <<"C","o","d","e"," ","R","e","v","i","e","w"," ","S","u","g","g","e","s","t","i","o","n">>),
            DictGet(suggestion_dict, "description", <<>>),
            IF "suggestion" \in DOMAIN suggestion_dict
                THEN Some(suggestion_dict["suggestion"]) ELSE None,
            github_url,
            suggestion_type,
            fc.context_lines)

\* mutant: the ValueError of int() is not caught where it is raised, so the
\* outer handler returns None for the record
create_suggestion_from_dict_Uncaught(suggestion_dict, fc, repo, br) ==
    IF "line_number" \in DOMAIN suggestion_dict /\ IntParse(suggestion_dict["line_number"]) = None
    THEN None
    ELSE Some(SuggestionFromDict(suggestion_dict, fc, repo, br))

\* _create_suggestion_from_dict: Some(record), or None when building it raises
\* (no dict the parser builds makes it raise)
_create_suggestion_from_dict(suggestion_dict, fc, repo, br) ==
    Some(SuggestionFromDict(suggestion_dict, fc, repo, br))

\* line.split('**Label**:', 1)[1].strip() if the decorated label is in the line,
\* else line.split('Label:', 1)[1].strip()
LabelValue(line, decorated, plain) ==
    IF StrContains(line, decorated)
    THEN Strip(SplitAfter(line, decorated))
    ELSE Strip(SplitAfter(line, plain))

\* mutant: a label counts only where the line starts with it
HasLabel_AtStart(line, decorated, plain) ==
    \/ (Len(decorated) <= Len(line) /\ SubSeq(line, 1, Len(decorated)) = decorated)
    \/ (Len(plain) <= Len(line) /\ SubSeq(line, 1, Len(plain)) = plain)

HasLabel(line, decorated, plain) == StrContains(line, decorated) \/ StrContains(line, plain)

\* value.replace('*', '').strip()
Clean(v) == Strip(RemoveStars(v))

\* "if current_suggestion and 'type' in current_suggestion": flush the accumulator
\* st = [cur |-> accumulator, out |-> suggestions, fl |-> dicts flushed so far]
Flush(st, fc, repo, br) ==
    IF "type" \in DOMAIN st.cur
    THEN [ st EXCEPT !.out = st.out \o _create_suggestion_from_dict(st.cur, fc, repo, br),
                     !.fl  = Append(st.fl, st.cur) ]
    ELSE st

\* one iteration of "for i, line in enumerate(lines)"
ScanLine(st, raw, fc, repo, br) ==
    LET line == Strip(raw) IN
    IF HasLabel(line, <<"*","*","T","y","p","e","*","*",":">>, <<"T","y","p","e",":">>) THEN
        [ Flush(st, fc, repo, br) EXCEPT
            !.cur = DictPut(EmptyDict, "type",
                            Lower(Clean(LabelValue(line, <<"*","*","T","y","p","e","*","*",":">>, <<"T","y","p","e",":">>)))) ]
    ELSE IF HasLabel(line, <<"*","*","S","e","v","e","r","i","t","y","*","*",":">>, <<"S","e","v","e","r","i","t","y",":">>) THEN
        [ st EXCEPT !.cur = DictPut(st.cur, "severity",
                            Lower(Clean(LabelValue(line, <<"*","*","S","e","v","e","r","i","t","y","*","*",":">>, <<"S","e","v","e","r","i","t","y",":">>)))) ]
    ELSE IF HasLabel(line, <<"*","*","T","i","t","l","e","*","*",":">>, <<"T","i","t","l","e",":">>) THEN
        [ st EXCEPT !.cur = DictPut(st.cur, "title",
                            Clean(LabelValue(line, <<"*","*","T","i","t","l","e","*","*",":">>, <<"T","i","t","l","e",":">>))) ]
    ELSE IF HasLabel(line, <<"*","*","D","e","s","c","r","i","p","t","i","o","n","*","*",":">>, <<"D","e","s","c","r","i","p","t","i","o","n",":">>) THEN
        [ st EXCEPT !.cur = DictPut(st.cur, "description",
                            Clean(LabelValue(line, <<"*","*","D","e","s","c","r","i","p","t","i","o","n","*","*",":">>, <<"D","e","s","c","r","i","p","t","i","o","n",":">>))) ]
    ELSE IF HasLabel(line, <<"*","*","S","u","g","g","e","s","t","i","o","n","*","*",":">>, <<"S","u","g","g","e","s","t","i","o","n",":">>) THEN
        [ st EXCEPT !.cur = DictPut(st.cur, "suggestion",
                            Clean(LabelValue(line, <<"*","*","S","u","g","g","e","s","t","i","o","n","*","*",":">>, <<"S","u","g","g","e","s","t","i","o","n",":">>))) ]
    ELSE IF HasLabel(line, <<"*","*","L","i","n","e"," ","N","u","m","b","e","r","*","*",":">>, <<"L","i","n","e"," ","N","u","m","b","e","r",":">>) THEN
        [ st EXCEPT !.cur = DictPut(st.cur, "line_number",
                            LabelValue(line, <<"*","*","L","i","n","e"," ","N","u","m","b","e","r","*","*",":">>, <<"L","i","n","e"," ","N","u","m","b","e","r",":">>)) ]
    ELSE st

\* mutant: the sentinel is looked for in the reply as written
SaysCodeQualityGood_CaseSensitive(resp) == StrContains(resp, CODE_QUALITY_GOOD)

\* 'if "CODE_QUALITY_GOOD" in response.upper()'
SaysCodeQualityGood(resp) == StrContains(Upper(resp), CODE_QUALITY_GOOD)

RECURSIVE ScanAll(_, _, _, _, _)
ScanAll(st, ls, fc, repo, br) ==
    IF ls = <<>> THEN st
    ELSE ScanAll(ScanLine(st, Head(ls), fc, repo, br), Tail(ls), fc, repo, br)

ScanStart == [cur |-> EmptyDict, out |-> <<>>, fl |-> <<>>]

\* _parse_ai_response as a function of its arguments
_parse_ai_response(resp, fc, repo, br) ==
    IF SaysCodeQualityGood(resp) THEN <<>>
    ELSE Flush(ScanAll(ScanStart, SplitLines(resp), fc, repo, br), fc, repo, br).out


-----------------------------------------------------------------------------
(* The process: its environment (ai_agent/config.py) and the rules document *)

\* AIConfig.validate: required_vars
REQUIRED_VARS == {"OPENAI_API_KEY", "GITHUB_TOKEN"}

\* AIConfig.validate: no required credential is missing
validate(creds) == REQUIRED_VARS \subseteq creds

\* CodeAnalyzer._get_default_rules: the built-in rule set
_get_default_rules ==
    JoinLines(<< <<>>,
                 <<" "," "," "," "," "," "," "," ","#"," ","P","y","t","h","o","n"," ","C","o","d","e"," ","S","t","a","n","d","a","r","d","s"," ","f","o","r"," ","A","I"," ","C","o","d","e"," ","R","e","v","i","e","w">>,
                 <<" "," "," "," "," "," "," "," ">>,
                 <<" "," "," "," "," "," "," "," ","#","#"," ","C","o","d","e"," ","Q","u","a","l","i","t","y"," ","R","u","l","e","s",":">>,
                 <<" "," "," "," "," "," "," "," ","1","."," ","F","u","n","c","t","i","o","n","s"," ","s","h","o","u","l","d"," ","n","o","t"," ","e","x","c","e","e","d"," ","1","5"," ","l","i","n","e","s">>,
                 <<" "," "," "," "," "," "," "," ","2","."," ","U","s","e"," ","d","e","s","c","r","i","p","t","i","v","e"," ","v","a","r","i","a","b","l","e"," ","n","a","m","e","s"," ","(","s","n","a","k","e","_","c","a","s","e",")">>,
                 <<" "," "," "," "," "," "," "," ","3","."," ","A","d","d"," ","p","r","o","p","e","r"," ","e","r","r","o","r"," ","h","a","n","d","l","i","n","g"," ","w","i","t","h"," ","t","r","y","-","e","x","c","e","p","t">>,
                 <<" "," "," "," "," "," "," "," ","4","."," ","I","n","c","l","u","d","e"," ","c","o","m","p","r","e","h","e","n","s","i","v","e"," ","d","o","c","s","t","r","i","n","g","s">>,
                 <<" "," "," "," "," "," "," "," ","5","."," ","A","v","o","i","d"," ","m","a","g","i","c"," ","n","u","m","b","e","r","s",","," ","u","s","e"," ","c","o","n","s","t","a","n","t","s">>,
                 <<" "," "," "," "," "," "," "," ","6","."," ","F","o","l","l","o","w"," ","P","E","P"," ","8"," ","f","o","r","m","a","t","t","i","n","g"," ","g","u","i","d","e","l","i","n","e","s">>,
                 <<" "," "," "," "," "," "," "," ","7","."," ","U","s","e"," ","t","y","p","e"," ","h","i","n","t","s"," ","w","h","e","r","e"," ","a","p","p","r","o","p","r","i","a","t","e">>,
                 <<" "," "," "," "," "," "," "," ","8","."," ","W","r","i","t","e"," ","t","e","s","t","a","b","l","e"," ","c","o","d","e">>,
                 <<" "," "," "," "," "," "," "," ","9","."," ","C","o","n","s","i","d","e","r"," ","p","e","r","f","o","r","m","a","n","c","e"," ","i","m","p","l","i","c","a","t","i","o","n","s">>,
                 <<" "," "," "," "," "," "," "," ","1","0","."," ","E","n","s","u","r","e"," ","c","o","d","e"," ","r","e","a","d","a","b","i","l","i","t","y">>,
                 <<" "," "," "," "," "," "," "," ">> >>)

\* mutant: a missing or unreadable rules document gives an empty rules text
load_custom_rules_NoFallback(rf) ==
    IF rf.exists /\ rf.content # None THEN rf.content[1] ELSE <<>>

\* CodeAnalyzer._load_custom_rules: rf.exists is os.path.exists(rules_path),
\* rf.content is what f.read() returns, None when open or read raises
_load_custom_rules(rf) ==
    IF rf.exists
    THEN IF rf.content # None THEN rf.content[1] ELSE _get_default_rules
    ELSE _get_default_rules

\* the process started as python -m ai_agent (__main__.py): the credentials
\* were validated, the analyzer was constructed, no request is served
\* no call of get_file_diff_with_context is followed on its own
ClientIdle ==
    /\ head_content = None
    /\ base_content = None
    /\ context_window = 0
    /\ diff_result = None
    /\ dpc = "idle"

\* no webhook was delivered
WebhookIdle ==
    /\ webhook_responses = <<>>
    /\ review_tasks = <<>>

CommandLineProcess ==
    /\ entry_point = "cli"
    /\ credentials = REQUIRED_VARS
    /\ rules_file = [exists |-> FALSE, content |-> None]
    /\ custom_rules = Some(_get_default_rules)
    /\ code_reviews = <<>>
    /\ svc_request = None
    /\ svc_result = None
    /\ svc_calls = <<>>

-----------------------------------------------------------------------------
(* The parser as a process: one step per statement group of _parse_ai_response *)

\* physical lines a model reply is built from
ResponseLines ==
    { <<"T","y","p","e",":"," ","b","u","g">>,
      <<"-"," ","*","*","T","y","p","e","*","*",":"," ","S","t","y","l","e">>,
      <<"T","y","p","e",":"," ","b","o","g","u","s"," ","T","y","p","e",":"," ","b","u","g">>,
      <<"S","e","v","e","r","i","t","y",":"," ","c","r","i","t","i","c","a","l">>,
      <<"*","*","S","e","v","e","r","i","t","y","*","*",":"," ","u","r","g","e","n","t">>,
      <<"T","i","t","l","e",":"," ","L","o","n","g">>,
      <<"T","i","t","l","e",":"," ","b","a","d"," ","T","y","p","e",":"," ","B","u","g">>,
      <<"D","e","s","c","r","i","p","t","i","o","n",":"," ","*","d","*">>,
      <<"S","u","g","g","e","s","t","i","o","n",":"," ","s">>,
      <<"L","i","n","e"," ","N","u","m","b","e","r",":"," ","1","2">>,
      <<"L","i","n","e"," ","N","u","m","b","e","r",":"," ","0">>,
      <<"L","i","n","e"," ","N","u","m","b","e","r",":"," ","-","3">>,
      <<"L","i","n","e"," ","N","u","m","b","e","r",":"," ","2","-","4">>,
      <<"*","*","L","i","n","e"," ","N","u","m","b","e","r",":","*","*"," ","1","2">>,
      <<"o","k"," ","C","o","d","e","_","Q","u","a","l","i","t","y","_","G","o","o","d">>,
      <<"l","o","o","k","s"," ","f","i","n","e">> }

Responses ==
    { JoinLines(ls) : ls \in UNION { [1..n -> ResponseLines] : n \in 0..MaxLines } }

ParserFile == GitHubFileContent(<<"m","a","i","n",".","p","y">>, <<>>)

InitParse ==
    /\ response \in Responses
    /\ file_content = ParserFile
    /\ repository = <<"o","/","r">>
    /\ branch = <<"d","e","v">>
    /\ ppc = "start"
    /\ lines = <<>>
    /\ line_idx = 0
    /\ current_suggestion = EmptyDict
    /\ suggestions = <<>>
    /\ flushed = <<>>
    /\ pc = "idle"
    /\ pr_number = 0
    /\ pr_files = <<>>
    /\ file_idx = 0
    /\ all_suggestions = <<>>
    /\ files_reviewed = 0
    /\ review_result = None
    /\ events = <<>>
    /\ CommandLineProcess
    /\ ClientIdle
    /\ WebhookIdle

\* mutant: the accumulator outlives the call
ParseStart_KeepsAccumulator ==
    /\ ppc = "start"
    /\ suggestions' = <<>>
    /\ flushed' = <<>>
    /\ line_idx' = 0
    /\ IF SaysCodeQualityGood(response)
       THEN /\ ppc' = "done"
            /\ lines' = <<>>
       ELSE /\ ppc' = "scan"
            /\ lines' = SplitLines(response)
    /\ UNCHANGED <<response, file_content, repository, branch, current_suggestion>>
    /\ UNCHANGED review_vars
    /\ UNCHANGED service_vars
    /\ UNCHANGED client_vars
    /\ UNCHANGED webhook_vars

\* lines 174-188: the call starts with its own empty list, makes the sentinel
\* check, then splits the reply into lines and starts an empty accumulator
\* (the locals of a call that returns at line 182 are left empty)
ParseStart ==
    /\ ppc = "start"
    /\ suggestions' = <<>>
    /\ flushed' = <<>>
    /\ line_idx' = 0
    /\ current_suggestion' = EmptyDict
    /\ IF SaysCodeQualityGood(response)
       THEN /\ ppc' = "done"
            /\ lines' = <<>>
       ELSE /\ ppc' = "scan"
            /\ lines' = SplitLines(response)
    /\ UNCHANGED <<response, file_content, repository, branch>>
    /\ UNCHANGED review_vars
    /\ UNCHANGED service_vars
    /\ UNCHANGED client_vars
    /\ UNCHANGED webhook_vars

\* mutant: a Type line lays the new accumulator over the old one
ParseScanLine_KeepsFields ==
    /\ ppc = "scan"
    /\ line_idx < Len(lines)
    /\ LET st == ScanLine([cur |-> current_suggestion, out |-> suggestions, fl |-> flushed],
                          lines[line_idx + 1], file_content, repository, branch)
       IN  /\ current_suggestion' = [k \in (DOMAIN current_suggestion) \cup (DOMAIN st.cur) |->
                                        IF k \in DOMAIN st.cur THEN st.cur[k]
                                        ELSE current_suggestion[k]]
           /\ suggestions' = st.out
           /\ flushed' = st.fl
    /\ line_idx' = line_idx + 1
    /\ UNCHANGED <<response, file_content, repository, branch, ppc, lines>>
    /\ UNCHANGED review_vars
    /\ UNCHANGED service_vars
    /\ UNCHANGED client_vars
    /\ UNCHANGED webhook_vars

\* lines 190-261: one iteration of the loop over the lines
ParseScanLine ==
    /\ ppc = "scan"
    /\ line_idx < Len(lines)
    /\ LET st == ScanLine([cur |-> current_suggestion, out |-> suggestions, fl |-> flushed],
                          lines[line_idx + 1], file_content, repository, branch)
       IN  /\ current_suggestion' = st.cur
           /\ suggestions' = st.out
           /\ flushed' = st.fl
    /\ line_idx' = line_idx + 1
    /\ UNCHANGED <<response, file_content, repository, branch, ppc, lines>>
    /\ UNCHANGED review_vars
    /\ UNCHANGED service_vars
    /\ UNCHANGED client_vars
    /\ UNCHANGED webhook_vars

\* mutant: the accumulator left at the end of the scan is not flushed
ParseFinish_NoLastFlush ==
    /\ ppc = "scan"
    /\ line_idx = Len(lines)
    /\ ppc' = "done"
    /\ UNCHANGED <<response, file_content, repository, branch, lines, line_idx,
                   current_suggestion, suggestions, flushed>>
    /\ UNCHANGED review_vars
    /\ UNCHANGED service_vars
    /\ UNCHANGED client_vars
    /\ UNCHANGED webhook_vars

\* lines 263-274: the last suggestion, then return
ParseFinish ==
    /\ ppc = "scan"
    /\ line_idx = Len(lines)
    /\ LET st == Flush([cur |-> current_suggestion, out |-> suggestions, fl |-> flushed],
                       file_content, repository, branch)
       IN  /\ suggestions' = st.out
           /\ flushed' = st.fl
    /\ ppc' = "done"
    /\ UNCHANGED <<response, file_content, repository, branch, lines, line_idx,
                   current_suggestion>>
    /\ UNCHANGED review_vars
    /\ UNCHANGED service_vars
    /\ UNCHANGED client_vars
    /\ UNCHANGED webhook_vars

NextParse == ParseStart \/ ParseScanLine \/ ParseFinish

SpecParse == InitParse /\ [][NextParse]_vars

-----------------------------------------------------------------------------
(* The parser with a record construction that may raise: no reply makes
   _create_suggestion_from_dict raise, so its handler (lines 341-343) runs
   only for an exception from outside the parser, which is let happen here
   at any flush *)

\* mutant: the exception of the record construction ends the call without result
ParseScanLineRaises_Aborts ==
    /\ ppc = "scan"
    /\ line_idx < Len(lines)
    /\ "type" \in DOMAIN current_suggestion
    /\ HasLabel(Strip(lines[line_idx + 1]), <<"*","*","T","y","p","e","*","*",":">>, <<"T","y","p","e",":">>)
    /\ flushed' = Append(flushed, current_suggestion)
    /\ suggestions' = <<>>
    /\ ppc' = "done"
    /\ UNCHANGED <<response, file_content, repository, branch, lines, line_idx,
                   current_suggestion>>
    /\ UNCHANGED review_vars
    /\ UNCHANGED service_vars
    /\ UNCHANGED client_vars
    /\ UNCHANGED webhook_vars

\* lines 195-214 with 341-343: the iteration for a Type line in which the
\* construction of the record for the accumulator raises: the handler returns
\* None, nothing is appended (line 200) and the new accumulator is started
ParseScanLineRaises ==
    /\ ppc = "scan"
    /\ line_idx < Len(lines)
    /\ "type" \in DOMAIN current_suggestion
    /\ HasLabel(Strip(lines[line_idx + 1]), <<"*","*","T","y","p","e","*","*",":">>, <<"T","y","p","e",":">>)
    /\ LET st == ScanLine([cur |-> EmptyDict, out |-> suggestions,
                           fl |-> Append(flushed, current_suggestion)],
                          lines[line_idx + 1], file_content, repository, branch)
       IN  /\ current_suggestion' = st.cur
           /\ suggestions' = st.out
           /\ flushed' = st.fl
    /\ line_idx' = line_idx + 1
    /\ UNCHANGED <<response, file_content, repository, branch, ppc, lines>>
    /\ UNCHANGED review_vars
    /\ UNCHANGED service_vars
    /\ UNCHANGED client_vars
    /\ UNCHANGED webhook_vars

\* lines 263-274 with 341-343: the construction of the last record raises
ParseFinishRaises ==
    /\ ppc = "scan"
    /\ line_idx = Len(lines)
    /\ "type" \in DOMAIN current_suggestion
    /\ flushed' = Append(flushed, current_suggestion)
    /\ ppc' = "done"
    /\ UNCHANGED <<response, file_content, repository, branch, lines, line_idx,
                   current_suggestion, suggestions>>
    /\ UNCHANGED review_vars
    /\ UNCHANGED service_vars
    /\ UNCHANGED client_vars
    /\ UNCHANGED webhook_vars

NextParseFaults ==
    \/ ParseStart
    \/ ParseScanLine
    \/ ParseFinish
    \/ ParseScanLineRaises
    \/ ParseFinishRaises

SpecParseFaults == InitParse /\ [][NextParseFaults]_vars


-----------------------------------------------------------------------------
(* ai_agent/config.py *)

\* AIConfig.MAX_FILE_SIZE (default)
MAX_FILE_SIZE == 1000000

\* AIConfig.CONTEXT_LINES (default)
CONTEXT_LINES == 5

-----------------------------------------------------------------------------
(* ai_agent/review_generator.py: ReviewGenerator *)

binary_extensions ==
    { <<".","p","n","g">>, <<".","j","p","g">>, <<".","j","p","e","g">>, <<".","g","i","f">>, <<".","b","m","p">>, <<".","i","c","o">>, <<".","s","v","g">>,
      <<".","p","d","f">>, <<".","d","o","c">>, <<".","d","o","c","x">>, <<".","x","l","s">>, <<".","x","l","s","x">>,
      <<".","z","i","p">>, <<".","t","a","r">>, <<".","g","z">>, <<".","r","a","r">>, <<".","7","z">>,
      <<".","e","x","e">>, <<".","d","l","l">>, <<".","s","o">>, <<".","d","y","l","i","b">>,
      <<".","m","p","3">>, <<".","m","p","4">>, <<".","a","v","i">>, <<".","m","o","v">>, <<".","w","a","v">> }

\* mutant: the extension is compared without lower-casing the name
should_skip_file_CaseSensitive(file_diff) ==
    IF file_diff.changes > MAX_FILE_SIZE THEN TRUE
    ELSE \E ext \in binary_extensions : EndsWith(file_diff.filename, ext)

\* _should_skip_file
_should_skip_file(file_diff) ==
    IF file_diff.changes > MAX_FILE_SIZE THEN TRUE
    ELSE LET filename == Lower(file_diff.filename)
         IN  \E ext \in binary_extensions : EndsWith(filename, ext)

\* the values of attr over the suggestions, in order
RECURSIVE Values(_, _)
Values(ss, attr) ==
    IF ss = <<>> THEN <<>> ELSE <<Head(ss)[attr]>> \o Values(Tail(ss), attr)

\* the keys of a counting dict, in insertion order (first occurrence)
RECURSIVE KeysInOrder(_)
KeysInOrder(vs) ==
    IF vs = <<>> THEN <<>>
    ELSE LET init == KeysInOrder(SubSeq(vs, 1, Len(vs) - 1))
             last == vs[Len(vs)]
         IN  IF \E k \in 1..Len(init) : init[k] = last THEN init ELSE Append(init, last)

CountOf(vs, v) == Cardinality({k \in 1..Len(vs) : vs[k] = v})

\* sep.join(parts)
RECURSIVE Join(_, _)
Join(parts, sep) ==
    IF parts = <<>> THEN <<>>
    ELSE IF Len(parts) = 1 THEN parts[1]
    ELSE parts[1] \o sep \o Join(Tail(parts), sep)

\* ", ".join(f"{count} {key}" for key, count in counts.items())
Breakdown(vs) ==
    LET keys == KeysInOrder(vs)
    IN  Join([k \in 1..Len(keys) |-> IntToStr(CountOf(vs, keys[k])) \o <<" ">> \o keys[k]],
             <<","," ">>)

\* mutant: the high severity is looked at before the critical one
generate_review_summary_HighFirst(ss, reviewed) ==
    IF ss = <<>>
    THEN <<"[","o","k","]"," ","C","o","d","e"," ","r","e","v","i","e","w"," ","c","o","m","p","l","e","t","e","d"," ","f","o","r"," ">> \o IntToStr(reviewed)
           \o <<" ","f","i","l","e","s","."," ","N","o"," ","i","s","s","u","e","s"," ","f","o","u","n","d"," ","-"," ","c","o","d","e"," ","q","u","a","l","i","t","y"," ","i","s"," ","e","x","c","e","l","l","e","n","t","!">>
    ELSE LET severities == Values(ss, "severity")
             types == Values(ss, "suggestion_type")
             recommendation ==
                 IF CountOf(severities, <<"h","i","g","h">>) > 0
                 THEN <<"[","h","i","g","h","]"," ","H","i","g","h"," ","p","r","i","o","r","i","t","y"," ","i","s","s","u","e","s"," ","f","o","u","n","d"," ","-"," ","r","e","v","i","e","w"," ","a","n","d"," ","a","d","d","r","e","s","s"," ","s","o","o","n",".">>
                 ELSE IF CountOf(severities, <<"c","r","i","t","i","c","a","l">>) > 0
                 THEN <<"[","w","a","r","n","]"," ","C","r","i","t","i","c","a","l"," ","i","s","s","u","e","s"," ","f","o","u","n","d"," ","-"," ","i","m","m","e","d","i","a","t","e"," ","a","t","t","e","n","t","i","o","n"," ","r","e","q","u","i","r","e","d","!">>
                 ELSE <<"[","o","k","]"," ","O","v","e","r","a","l","l"," ","c","o","d","e"," ","q","u","a","l","i","t","y"," ","i","s"," ","g","o","o","d"," ","w","i","t","h"," ","m","i","n","o","r"," ","i","m","p","r","o","v","e","m","e","n","t","s"," ","s","u","g","g","e","s","t","e","d",".">>
         IN  Join(<< <<"C","o","d","e"," ","r","e","v","i","e","w"," ","c","o","m","p","l","e","t","e","d"," ","f","o","r"," ">> \o IntToStr(reviewed) \o <<" ","f","i","l","e","s",".">>,
                     <<"F","o","u","n","d"," ">> \o IntToStr(Len(ss)) \o <<" ","s","u","g","g","e","s","t","i","o","n","s"," ","f","o","r"," ","i","m","p","r","o","v","e","m","e","n","t",":">>,
                     <<"S","e","v","e","r","i","t","y",":"," ">> \o Breakdown(severities),
                     <<"C","a","t","e","g","o","r","i","e","s",":"," ">> \o Breakdown(types),
                     recommendation >>,
                  <<" ">>)

\* _generate_review_summary (the emoji that open three of the sentences are
\* written [ok], [warn] and [high])
_generate_review_summary(ss, reviewed) ==
    IF ss = <<>>
    THEN <<"[","o","k","]"," ","C","o","d","e"," ","r","e","v","i","e","w"," ","c","o","m","p","l","e","t","e","d"," ","f","o","r"," ">> \o IntToStr(reviewed)
           \o <<" ","f","i","l","e","s","."," ","N","o"," ","i","s","s","u","e","s"," ","f","o","u","n","d"," ","-"," ","c","o","d","e"," ","q","u","a","l","i","t","y"," ","i","s"," ","e","x","c","e","l","l","e","n","t","!">>
    ELSE LET severities == Values(ss, "severity")
             types == Values(ss, "suggestion_type")
             recommendation ==
                 IF CountOf(severities, <<"c","r","i","t","i","c","a","l">>) > 0
                 THEN <<"[","w","a","r","n","]"," ","C","r","i","t","i","c","a","l"," ","i","s","s","u","e","s"," ","f","o","u","n","d"," ","-"," ","i","m","m","e","d","i","a","t","e"," ","a","t","t","e","n","t","i","o","n"," ","r","e","q","u","i","r","e","d","!">>
                 ELSE IF CountOf(severities, <<"h","i","g","h">>) > 0
                 THEN <<"[","h","i","g","h","]"," ","H","i","g","h"," ","p","r","i","o","r","i","t","y"," ","i","s","s","u","e","s"," ","f","o","u","n","d"," ","-"," ","r","e","v","i","e","w"," ","a","n","d"," ","a","d","d","r","e","s","s"," ","s","o","o","n",".">>
                 ELSE <<"[","o","k","]"," ","O","v","e","r","a","l","l"," ","c","o","d","e"," ","q","u","a","l","i","t","y"," ","i","s"," ","g","o","o","d"," ","w","i","t","h"," ","m","i","n","o","r"," ","i","m","p","r","o","v","e","m","e","n","t","s"," ","s","u","g","g","e","s","t","e","d",".">>
         IN  Join(<< <<"C","o","d","e"," ","r","e","v","i","e","w"," ","c","o","m","p","l","e","t","e","d"," ","f","o","r"," ">> \o IntToStr(reviewed) \o <<" ","f","i","l","e","s",".">>,
                     <<"F","o","u","n","d"," ">> \o IntToStr(Len(ss)) \o <<" ","s","u","g","g","e","s","t","i","o","n","s"," ","f","o","r"," ","i","m","p","r","o","v","e","m","e","n","t",":">>,
                     <<"S","e","v","e","r","i","t","y",":"," ">> \o Breakdown(severities),
                     <<"C","a","t","e","g","o","r","i","e","s",":"," ">> \o Breakdown(types),
                     recommendation >>,
                  <<" ">>)

\* class CodeReviewResult(BaseModel)
CodeReviewResult(pull_request_id, ss, total_suggestions, reviewed, review_summary) ==
    [ pull_request_id   |-> pull_request_id,
      suggestions       |-> ss,
      total_suggestions |-> total_suggestions,
      files_reviewed    |-> reviewed,
      review_summary    |-> review_summary ]

\* GitHubFileDiff: the fields generate_review reads
GitHubFileDiff(filename, changes) == [filename |-> filename, changes |-> changes]

\* os.path.basename: the "name" field of the contents API answer
Basename(path) ==
    IF \A k \in 1..Len(path) : path[k] # "/" THEN path
    ELSE LET k == CHOOSE j \in 1..Len(path) :
                     path[j] = "/" /\ \A h \in (j + 1)..Len(path) : path[h] # "/"
         IN  SubSeq(path, k + 1, Len(path))

\* what the contents API holds of a path at the head and at the base of the
\* pull request (None: the path is not there, as for a file the request adds)
Contents(file_path, ref) ==
    IF file_path = <<"s","r","c","/","m","a","i","n",".","p","y">>
    THEN IF ref = "head_sha"
         THEN Some(JoinLines(<< <<"a"," ","="," ","1">>, <<"b"," ","="," ","3">>, <<"c"," ","="," ","4">> >>))
         ELSE Some(JoinLines(<< <<"a"," ","="," ","1">>, <<"b"," ","="," ","2">> >>))
    ELSE IF file_path \in { <<"l","i","b","/","m","a","i","n",".","p","y">>, <<"l","i","b","/","e","d","g","e",".","p","y">> } /\ ref = "head_sha"
    THEN Some(JoinLines(<< <<"a"," ","="," ","1">>, <<>> >>))
    ELSE None

\* GitHubClient.get_file_content: the outcomes of one request; None for
\* whatever goes wrong, else the content under filename=file_data["name"]
get_file_content(file_path, ref) ==
    {None} \cup
    (IF Contents(file_path, ref) = None THEN {}
     ELSE { Some(GitHubFileContent(Basename(file_path), Contents(file_path, ref)[1])) })

\* the loop of _parse_diff_lines over enumerate(zip(new_lines, old_lines)), from index i on
RECURSIVE parse_diff_loop(_, _, _)
parse_diff_loop(new_lines, old_lines, i) ==
    IF i >= Len(new_lines) \/ i >= Len(old_lines) THEN <<>>
    ELSE (IF new_lines[i + 1] # old_lines[i + 1]
          THEN << <<"L","i","n","e"," ">> \o IntToStr(i + 1) \o <<":"," ">> \o new_lines[i + 1] >>
          ELSE <<>>)
         \o parse_diff_loop(new_lines, old_lines, i + 1)

\* mutant: the descriptors carry the text of the old version
parse_diff_lines_OldText(new_content, old_content) ==
    parse_diff_loop(SplitLines(old_content), SplitLines(new_content), 0)

\* GitHubClient._parse_diff_lines
_parse_diff_lines(new_content, old_content) ==
    parse_diff_loop(SplitLines(new_content), SplitLines(old_content), 0)

\* re.search(r'Line (\d+):', s): group(1) of the leftmost match, None without one
LineNumberMatch(s) ==
    LET digitsFrom(k) ==
            LET stop == {j \in k..Len(s) : ~ InAlpha(DigitChars, s[j])}
                e == IF stop = {} THEN Len(s) + 1
                     ELSE CHOOSE j \in stop : \A h \in stop : j <= h
            IN  SubSeq(s, k, e - 1)
        matchAt(k) ==
            /\ k + 4 <= Len(s)
            /\ SubSeq(s, k, k + 4) = <<"L","i","n","e"," ">>
            /\ digitsFrom(k + 5) # <<>>
            /\ k + 5 + Len(digitsFrom(k + 5)) <= Len(s)
            /\ s[k + 5 + Len(digitsFrom(k + 5))] = ":"
        at == {k \in 1..Len(s) : matchAt(k)}
    IN  IF at = {} THEN None
        ELSE Some(digitsFrom((CHOOSE k \in at : \A h \in at : k <= h) + 5))

\* mutant: the window is not cut at the first line of the file (a negative
\* index of a Python list counts from its end)
ContextWindow_Unclipped(lines_, line_num, context_lines) ==
    LET start == line_num - context_lines
        end == IF Len(lines_) < line_num + context_lines + 1 THEN Len(lines_)
               ELSE line_num + context_lines + 1
    IN  [j \in 1..(IF end > start THEN end - start ELSE 0) |->
            LET i == start + j - 1
            IN  (IF i = line_num THEN <<">",">",">"," ">> ELSE <<" "," "," "," ">>)
                \o <<"L","i","n","e"," ">> \o IntToStr(i + 1) \o <<":"," ">>
                \o lines_[IF i >= 0 THEN i + 1 ELSE ((Len(lines_) + i) % Len(lines_)) + 1]]
        \o << <<"-","-","-">> >>

\* lines 163-171 of _get_context_lines: the window of one changed line, then
\* the delimiter
ContextWindow(lines_, line_num, context_lines) ==
    LET start == IF line_num - context_lines > 0 THEN line_num - context_lines ELSE 0
        end == IF Len(lines_) < line_num + context_lines + 1 THEN Len(lines_)
               ELSE line_num + context_lines + 1
    IN  [j \in 1..(IF end > start THEN end - start ELSE 0) |->
            LET i == start + j - 1
            IN  (IF i = line_num THEN <<">",">",">"," ">> ELSE <<" "," "," "," ">>)
                \o <<"L","i","n","e"," ">> \o IntToStr(i + 1) \o <<":"," ">> \o lines_[i + 1]]
        \o << <<"-","-","-">> >>

\* GitHubClient._get_context_lines
RECURSIVE _get_context_lines(_, _, _)
_get_context_lines(content, diff_lines, context_lines) ==
    IF diff_lines = <<>> THEN <<>>
    ELSE LET match == LineNumberMatch(diff_lines[1])
         IN  (IF match # None
              THEN ContextWindow(SplitLines(content), DigitsValue(match[1]) - 1, context_lines)
              ELSE <<>>)
             \o _get_context_lines(content, Tail(diff_lines), context_lines)

\* mutant: without the old version there is no result
get_file_diff_with_context_NeedsBase(head, base, context_lines) ==
    IF head = None \/ base = None THEN None
    ELSE LET diff_lines == _parse_diff_lines(head[1].content, base[1].content)
         IN  Some([head[1] EXCEPT
                     !.diff_lines = diff_lines,
                     !.context_lines = _get_context_lines(head[1].content, diff_lines, context_lines)])

\* GitHubClient.get_file_diff_with_context, given what the two calls of
\* get_file_content return (the base version is asked for only after the
\* head version has come)
get_file_diff_with_context(head, base, context_lines) ==
    IF head = None THEN None
    ELSE LET diff_lines == IF base # None
                           THEN _parse_diff_lines(head[1].content, base[1].content)
                           ELSE head[1].diff_lines
             context == IF diff_lines # <<>>
                        THEN _get_context_lines(head[1].content, diff_lines, context_lines)
                        ELSE head[1].context_lines
         IN  Some([head[1] EXCEPT !.diff_lines = diff_lines, !.context_lines = context])

\* the changed files a pull request is made of
PrFiles ==
    { GitHubFileDiff(<<"s","r","c","/","m","a","i","n",".","p","y">>, 10),
      GitHubFileDiff(<<"l","i","b","/","m","a","i","n",".","p","y">>, 3),
      GitHubFileDiff(<<"d","o","c","s","/","L","o","g","o",".","P","N","G">>, 10),
      GitHubFileDiff(<<"l","i","b","/","e","d","g","e",".","p","y">>, MAX_FILE_SIZE),
      GitHubFileDiff(<<"b","i","g",".","p","y">>, MAX_FILE_SIZE + 1) }

\* a pull request lists a file once
PrFileLists ==
    { fs \in UNION { [1..n -> PrFiles] : n \in 0..MaxFiles } :
        \A j, k \in 1..Len(fs) : j # k => fs[j] # fs[k] }

\* the replies of the model in a review run
ModelReplies ==
    { <<"C","O","D","E","_","Q","U","A","L","I","T","Y","_","G","O","O","D">>,
      JoinLines(<< <<"T","y","p","e",":"," ","s","t","y","l","e">>, <<"S","e","v","e","r","i","t","y",":"," ","h","i","g","h">> >>),
      JoinLines(<< <<"T","y","p","e",":"," ","t","e","s","t","i","n","g">>, <<"S","e","v","e","r","i","t","y",":"," ","C","r","i","t","i","c","a","l">> >>),
      JoinLines(<< <<"T","y","p","e",":"," ","b","u","g">>, <<"T","y","p","e",":"," ","s","e","c","u","r","i","t","y">> >>) }

Event(op, idx, data) == [op |-> op, idx |-> idx, data |-> data]

Init ==
    /\ response = <<>>
    /\ file_content = ParserFile
    /\ repository = <<>>
    /\ branch = <<>>
    /\ ppc = "idle"
    /\ lines = <<>>
    /\ line_idx = 0
    /\ current_suggestion = EmptyDict
    /\ suggestions = <<>>
    /\ flushed = <<>>
    /\ pc = "start"
    /\ pr_number = 7
    /\ pr_files = <<>>
    /\ file_idx = 0
    /\ all_suggestions = <<>>
    /\ files_reviewed = 0
    /\ review_result = None
    /\ events = <<>>
    /\ CommandLineProcess
    /\ ClientIdle
    /\ WebhookIdle

\* mutant: a failed fetch of the pull request gives an empty result
GetPrInfoFails_EmptyResult ==
    /\ pc = "start"
    /\ entry_point = "cli"
    /\ pc' = "failed"
    /\ review_result' = Some(CodeReviewResult(pr_number, <<>>, 0, 0,
                                              _generate_review_summary(<<>>, 0)))
    /\ UNCHANGED <<parser_vars, pr_number, pr_files, file_idx, all_suggestions,
                   files_reviewed, events>>
    /\ UNCHANGED service_vars
    /\ UNCHANGED client_vars
    /\ UNCHANGED webhook_vars

\* lines 26-29: get_pr_info returned None (github_client.py 66-71: whatever
\* went wrong while the pull request was fetched); generate_review returns None
GetPrInfoFails ==
    /\ pc = "start"
    /\ entry_point = "cli"
    /\ pc' = "failed"
    /\ review_result' = None
    /\ UNCHANGED <<parser_vars, pr_number, pr_files, file_idx, all_suggestions,
                   files_reviewed, events>>
    /\ UNCHANGED service_vars
    /\ UNCHANGED client_vars
    /\ UNCHANGED webhook_vars

\* lines 26-35: get_pr_info returned the pull request
GetPrInfo ==
    /\ pc = "start"
    /\ entry_point = "cli"
    /\ \E fs \in PrFileLists : pr_files' = fs
    /\ repository' = <<"o","/","r">>
    /\ branch' = <<"d","e","v">>
    /\ all_suggestions' = <<>>
    /\ files_reviewed' = 0
    /\ file_idx' = 0
    /\ pc' = "loop"
    /\ UNCHANGED <<response, file_content, ppc, lines, line_idx, current_suggestion,
                   suggestions, flushed, pr_number, review_result, events>>
    /\ UNCHANGED service_vars
    /\ UNCHANGED client_vars
    /\ UNCHANGED webhook_vars

\* mutant: the file is counted before the skip test
SkipFile_Counted ==
    /\ pc = "loop"
    /\ file_idx < Len(pr_files)
    /\ _should_skip_file(pr_files[file_idx + 1])
    /\ file_idx' = file_idx + 1
    /\ files_reviewed' = files_reviewed + 1
    /\ events' = Append(events, Event("skip", file_idx + 1, <<>>))
    /\ UNCHANGED <<parser_vars, pc, pr_number, pr_files, all_suggestions, review_result>>
    /\ UNCHANGED service_vars
    /\ UNCHANGED client_vars
    /\ UNCHANGED webhook_vars

\* lines 37-44: the next file is skipped
SkipFile ==
    /\ pc = "loop"
    /\ file_idx < Len(pr_files)
    /\ _should_skip_file(pr_files[file_idx + 1])
    /\ file_idx' = file_idx + 1
    /\ events' = Append(events, Event("skip", file_idx + 1, <<>>))
    /\ UNCHANGED <<parser_vars, pc, pr_number, pr_files, all_suggestions,
                   files_reviewed, review_result>>
    /\ UNCHANGED service_vars
    /\ UNCHANGED client_vars
    /\ UNCHANGED webhook_vars

\* lines 37-55: the next file is not skipped and its content is fetched
\* (the fetch is logged with what the two content requests returned)
FetchFile ==
    /\ pc = "loop"
    /\ file_idx < Len(pr_files)
    /\ ~ _should_skip_file(pr_files[file_idx + 1])
    /\ \E head \in get_file_content(pr_files[file_idx + 1].filename, "head_sha") :
       \E base \in (IF head = None THEN {None}
                    ELSE get_file_content(pr_files[file_idx + 1].filename, "base_sha")) :
          LET fc == get_file_diff_with_context(head, base, CONTEXT_LINES)
          IN  /\ IF fc = None
                 THEN /\ file_idx' = file_idx + 1
                      /\ UNCHANGED <<file_content, pc>>
                 ELSE /\ file_content' = fc[1]
                      /\ pc' = "analyze"
                      /\ UNCHANGED file_idx
              /\ events' = Append(events, Event("fetch", file_idx + 1,
                                                [head |-> head, base |-> base]))
    /\ UNCHANGED <<response, repository, branch, ppc, lines, line_idx, current_suggestion,
                   suggestions, flushed, pr_number, pr_files, all_suggestions,
                   files_reviewed, review_result>>
    /\ UNCHANGED service_vars
    /\ UNCHANGED client_vars
    /\ UNCHANGED webhook_vars

\* analyze_file, lines 68-88: the model answers and the parser is called
\* (what the call before left behind is still there when the call is made)
AnalyzeFile ==
    /\ pc = "analyze"
    /\ ppc = "idle"
    /\ \E r \in ModelReplies : response' = r
    /\ ppc' = "start"
    /\ events' = Append(events, Event("llm", file_idx + 1, response'))
    /\ UNCHANGED <<file_content, repository, branch, lines, line_idx, current_suggestion,
                   suggestions, flushed, pc, pr_number, pr_files, file_idx,
                   all_suggestions, files_reviewed, review_result>>
    /\ UNCHANGED service_vars
    /\ UNCHANGED client_vars
    /\ UNCHANGED webhook_vars

\* analyze_file, lines 79 and 93-95: the model call raises and [] is returned
\* (the model call is logged without a reply)
AnalyzeFileFails ==
    /\ pc = "analyze"
    /\ ppc = "idle"
    /\ ppc' = "done"
    /\ suggestions' = <<>>
    /\ events' = Append(events, Event("llm", file_idx + 1, <<>>))
    /\ UNCHANGED <<response, file_content, repository, branch, lines, line_idx,
                   current_suggestion, flushed, pc, pr_number, pr_files, file_idx,
                   all_suggestions, files_reviewed, review_result>>
    /\ UNCHANGED service_vars
    /\ UNCHANGED client_vars
    /\ UNCHANGED webhook_vars

\* mutant: the exception of a file leaves the loop and ends the run (lines 89-91)
FetchFileRaises_Aborts ==
    /\ pc = "loop"
    /\ file_idx < Len(pr_files)
    /\ ~ _should_skip_file(pr_files[file_idx + 1])
    /\ pc' = "failed"
    /\ review_result' = None
    /\ events' = Append(events, Event("raise", file_idx + 1, <<>>))
    /\ UNCHANGED <<parser_vars, pr_number, pr_files, file_idx, all_suggestions,
                   files_reviewed>>
    /\ UNCHANGED service_vars
    /\ UNCHANGED client_vars
    /\ UNCHANGED webhook_vars

\* lines 47-51 and 70-72: the content fetch of the next file raises; the
\* handler of the loop body takes the exception and the loop goes on
FetchFileRaises ==
    /\ pc = "loop"
    /\ file_idx < Len(pr_files)
    /\ ~ _should_skip_file(pr_files[file_idx + 1])
    /\ file_idx' = file_idx + 1
    /\ events' = Append(events, Event("raise", file_idx + 1, <<>>))
    /\ UNCHANGED <<parser_vars, pc, pr_number, pr_files, all_suggestions,
                   files_reviewed, review_result>>
    /\ UNCHANGED service_vars
    /\ UNCHANGED client_vars
    /\ UNCHANGED webhook_vars

\* lines 58-60 and 70-72: the analysis of the file raises instead of
\* returning; nothing of the file is added and the file is not counted
AnalyzeFileRaises ==
    /\ pc = "analyze"
    /\ ppc = "idle"
    /\ file_idx' = file_idx + 1
    /\ pc' = "loop"
    /\ events' = Append(events, Event("raise", file_idx + 1, <<>>))
    /\ UNCHANGED <<parser_vars, pr_number, pr_files, all_suggestions,
                   files_reviewed, review_result>>
    /\ UNCHANGED service_vars
    /\ UNCHANGED client_vars
    /\ UNCHANGED webhook_vars

\* mutant: the file's suggestions are put in front of the aggregate
AppendSuggestions_InFront ==
    /\ pc = "analyze"
    /\ ppc = "done"
    /\ all_suggestions' = suggestions \o all_suggestions
    /\ files_reviewed' = files_reviewed + 1
    /\ file_idx' = file_idx + 1
    /\ pc' = "loop"
    /\ ppc' = "idle"
    /\ events' = Append(events, Event("append", file_idx + 1, suggestions))
    /\ UNCHANGED <<response, file_content, repository, branch, lines, line_idx,
                   current_suggestion, suggestions, flushed, pr_number, pr_files,
                   review_result>>
    /\ UNCHANGED service_vars
    /\ UNCHANGED client_vars
    /\ UNCHANGED webhook_vars

\* lines 62-68: analyze_file returned; extend the aggregate and count the file
AppendSuggestions ==
    /\ pc = "analyze"
    /\ ppc = "done"
    /\ all_suggestions' = all_suggestions \o suggestions
    /\ files_reviewed' = files_reviewed + 1
    /\ file_idx' = file_idx + 1
    /\ pc' = "loop"
    /\ ppc' = "idle"
    /\ events' = Append(events, Event("append", file_idx + 1, suggestions))
    /\ UNCHANGED <<response, file_content, repository, branch, lines, line_idx,
                   current_suggestion, suggestions, flushed, pr_number, pr_files,
                   review_result>>
    /\ UNCHANGED service_vars
    /\ UNCHANGED client_vars
    /\ UNCHANGED webhook_vars

\* lines 74-87: the summary and the result
FinishReview ==
    /\ pc = "loop"
    /\ file_idx = Len(pr_files)
    /\ review_result' = Some(CodeReviewResult(
                                pr_number,
                                all_suggestions,
                                Len(all_suggestions),
                                files_reviewed,
                                _generate_review_summary(all_suggestions, files_reviewed)))
    /\ pc' = "done"
    /\ UNCHANGED <<parser_vars, pr_number, pr_files, file_idx, all_suggestions,
                   files_reviewed, events>>
    /\ UNCHANGED service_vars
    /\ UNCHANGED client_vars
    /\ UNCHANGED webhook_vars

Next ==
    \/ GetPrInfoFails
    \/ GetPrInfo
    \/ SkipFile
    \/ FetchFile
    \/ AnalyzeFile
    \/ AnalyzeFileFails
    \/ FetchFileRaises
    \/ AnalyzeFileRaises
    \/ ParseStart
    \/ ParseScanLine
    \/ ParseFinish
    \/ AppendSuggestions
    \/ FinishReview

Spec == Init /\ [][Next]_vars

-----------------------------------------------------------------------------
(* ai_agent/service.py: AIReviewService, served by the application of main.py *)

\* the attributes AIReviewService.__init__ sets on the object
AIReviewService_attrs == {"review_generator"}

\* str(e) of the AttributeError raised by self.config
NoConfigAttribute == <<"'","A","I","R","e","v","i","e","w","S","e","r","v","i","c","e","'"," ","o","b","j","e","c","t"," ","h","a","s"," ","n","o"," ","a","t","t","r","i","b","u","t","e"," ","'","c","o","n","f","i","g","'">>

\* the reason returned when validate() is false
ConfigInvalid == <<"A","I"," ","A","g","e","n","t"," ","c","o","n","f","i","g","u","r","a","t","i","o","n"," ","i","s"," ","i","n","v","a","l","i","d","."," ","P","l","e","a","s","e"," ","c","h","e","c","k"," ","O","P","E","N","A","I","_","A","P","I","_","K","E","Y"," ","a","n","d"," ","G","I","T","H","U","B","_","T","O","K","E","N"," ","i","n"," ","c","o","n","f","i","g",".","e","n","v">>

\* str(e) of the exception a failing commit raises
CommitFailed == <<"c","o","m","m","i","t"," ","f","a","i","l","e","d">>

\* s.split(sep) for a one-character separator
RECURSIVE Split(_, _)
Split(s, sep) ==
    IF \A k \in 1..Len(s) : s[k] # sep THEN <<s>>
    ELSE LET k == CHOOSE j \in 1..Len(s) : s[j] = sep /\ \A h \in 1..(j - 1) : s[h] # sep
         IN  <<SubSeq(s, 1, k - 1)>> \o Split(SubSeq(s, k + 1, Len(s)), sep)

\* the identifiers a request names
PrIds == {1, 2, 3}

\* the pull_requests table: select(PullRequest).where(PullRequest.id == pr_id)
PullRequestRow(pr_id) ==
    IF pr_id = 1 THEN Some([repository |-> <<"o","/","r">>, pr_number |-> 7])
    ELSE IF pr_id = 2 THEN Some([repository |-> <<"o","-","r">>, pr_number |-> 8])
    ELSE None

\* a row of the code_reviews table (models.py, class CodeReview)
CodeReview(id, pr_id, s) ==
    [ id              |-> id,
      pull_request_id |-> pr_id,
      file_path       |-> s.file_path,
      line_number     |-> s.line_number,
      suggestion_type |-> s.suggestion_type,
      severity        |-> s.severity,
      title           |-> s.title,
      description     |-> s.description,
      suggestion      |-> s.suggestion,
      github_url      |-> s.github_url,
      rule_applied    |-> s.rule_applied ]

\* the dict a stored row is reported as
SuggestionDict(row) ==
    [ id              |-> row.id,
      file_path       |-> row.file_path,
      line_number     |-> row.line_number,
      suggestion_type |-> row.suggestion_type,
      severity        |-> row.severity,
      title           |-> row.title,
      description     |-> row.description,
      suggestion      |-> row.suggestion,
      github_url      |-> row.github_url,
      rule_applied    |-> row.rule_applied ]

\* mutant: every suggestion is added and one commit is made at the end, so
\* a failure takes the suggestions before it along
store_suggestions_OneCommit(rows, pr_id, ss, fail_at, fail_call) ==
    LET raised == fail_at \in 1..Len(ss)
        stored == IF raised THEN <<>>
                  ELSE [k \in 1..Len(ss) |-> CodeReview(Len(rows) + k, pr_id, ss[k])]
    IN  [ raised |-> raised,
          stored |-> stored,
          rows   |-> rows \o stored,
          calls  |-> [j \in 1..(IF raised THEN fail_at ELSE Len(ss)) |-> "db.add"]
                       \o (IF raised THEN <<"db.rollback">> ELSE <<"db.commit">>) ]

\* _store_suggestions: one add, commit and refresh per suggestion, in order;
\* the call fail_call for suggestion number fail_at raises (0: none does), the
\* session is rolled back and the exception is raised again.  A row whose
\* commit returned is in the table whatever comes after.
_store_suggestions(rows, pr_id, ss, fail_at, fail_call) ==
    LET raised == fail_at \in 1..Len(ss)
        last == IF raised THEN fail_at - 1 ELSE Len(ss)
        committed == IF raised /\ fail_call = "db.refresh" THEN fail_at ELSE last
        stored == [k \in 1..last |-> CodeReview(Len(rows) + k, pr_id, ss[k])]
        each == <<"db.add", "db.commit", "db.refresh">>
        upto == IF fail_call = "db.add" THEN 1 ELSE IF fail_call = "db.commit" THEN 2 ELSE 3
    IN  [ raised |-> raised,
          stored |-> stored,
          rows   |-> rows \o [k \in 1..committed |-> CodeReview(Len(rows) + k, pr_id, ss[k])],
          calls  |-> [j \in 1..(3 * last) |-> each[((j - 1) % 3) + 1]]
                       \o (IF raised THEN SubSeq(each, 1, upto) \o <<"db.rollback">> ELSE <<>>) ]

Failure(reason) == [success |-> FALSE, error |-> reason]

\* mutant: the exception of the attribute lookup leaves process_pr_review
process_pr_review_Uncaught(attrs, creds, rows, pr_id, review, fail_at) ==
    [ result |-> [exception |-> NoConfigAttribute], rows |-> rows, calls |-> <<>> ]

\* process_pr_review: attrs are the attributes of the service object, review
\* is what generate_review returns for the pull request; gives the dict
\* returned, the table afterwards and the collaborator calls made
process_pr_review(attrs, creds, rows, pr_id, review, fail_at) ==
    IF "config" \notin attrs
    THEN [ result |-> Failure(NoConfigAttribute), rows |-> rows, calls |-> <<>> ]
    ELSE IF ~ validate(creds)
    THEN [ result |-> Failure(ConfigInvalid), rows |-> rows, calls |-> <<>> ]
    ELSE LET pr == PullRequestRow(pr_id)
         IN  IF pr = None
             THEN [ result |-> Failure(<<"P","u","l","l"," ","r","e","q","u","e","s","t"," ","w","i","t","h"," ","I","D"," ">> \o IntToStr(pr_id)
                                          \o <<" ","n","o","t"," ","f","o","u","n","d">>),
                    rows |-> rows, calls |-> <<"db.execute">> ]
             ELSE IF Len(Split(pr[1].repository, "/")) # 2
             THEN [ result |-> Failure(<<"I","n","v","a","l","i","d"," ","r","e","p","o","s","i","t","o","r","y"," ","f","o","r","m","a","t",":"," ">> \o pr[1].repository),
                    rows |-> rows, calls |-> <<"db.execute">> ]
             ELSE IF review = None
             THEN [ result |-> Failure(<<"F","a","i","l","e","d"," ","t","o"," ","g","e","n","e","r","a","t","e"," ","A","I"," ","r","e","v","i","e","w"," ","-"," ","c","h","e","c","k"," ","l","o","g","s"," ","f","o","r"," ","d","e","t","a","i","l","s">>),
                    rows |-> rows, calls |-> <<"db.execute", "generate_review">> ]
             ELSE IF review[1].suggestions # <<>>
             THEN LET st == _store_suggestions(rows, pr_id, review[1].suggestions, fail_at, "db.commit")
                  IN  [ result |->
                          IF st.raised THEN Failure(CommitFailed)
                          ELSE [ success |-> TRUE,
                                 message |-> <<"A","I"," ","r","e","v","i","e","w"," ","c","o","m","p","l","e","t","e","d"," ","a","n","d"," ","s","u","g","g","e","s","t","i","o","n","s"," ","s","t","o","r","e","d">>,
                                 data    |-> [ total_suggestions |-> Len(st.stored),
                                               files_reviewed    |-> review[1].files_reviewed,
                                               review_summary    |-> review[1].review_summary,
                                               suggestions       |->
                                                   [k \in 1..Len(st.stored) |->
                                                        SuggestionDict(st.stored[k])] ] ],
                        rows  |-> st.rows,
                        calls |-> <<"db.execute", "generate_review">> \o st.calls ]
             ELSE [ result |->
                      [ success |-> TRUE,
                        message |-> <<"A","I"," ","r","e","v","i","e","w"," ","c","o","m","p","l","e","t","e","d"," ","-"," ","n","o"," ","s","u","g","g","e","s","t","i","o","n","s"," ","f","o","u","n","d"," ","(","c","o","d","e"," ","q","u","a","l","i","t","y"," ","i","s"," ","g","o","o","d",")">>,
                        data    |-> [ total_suggestions |-> 0,
                                      files_reviewed    |-> review[1].files_reviewed,
                                      review_summary    |-> review[1].review_summary ] ],
                    rows  |-> rows,
                    calls |-> <<"db.execute", "generate_review">> ]

\* get_pr_suggestions: the rows of the pull request, or [] when the read raises
get_pr_suggestions(rows, pr_id, read_fails) ==
    IF read_fails THEN <<>>
    ELSE LET mine == SelectSeq(rows, LAMBDA row : row.pull_request_id = pr_id)
         IN  [k \in 1..Len(mine) |-> SuggestionDict(mine[k])]

\* what generate_review gives for the pull request of a request
ReviewOutcomes ==
    LET found == _parse_ai_response(JoinLines(<< <<"T","y","p","e",":"," ","b","u","g">>, <<"T","y","p","e",":"," ","s","e","c","u","r","i","t","y">> >>),
                                    ParserFile, <<"o","/","r">>, <<"d","e","v">>)
    IN  { None,
          Some(CodeReviewResult(7, <<>>, 0, 1, _generate_review_summary(<<>>, 1))),
          Some(CodeReviewResult(7, found, Len(found), 1, _generate_review_summary(found, 1))) }

\* the application of main.py: AIReviewService() was constructed at import,
\* whatever credentials the environment holds; no request was served yet
WebProcess ==
    /\ entry_point = "web"
    /\ credentials \in SUBSET REQUIRED_VARS
    /\ rules_file = [exists |-> FALSE, content |-> None]
    /\ custom_rules = Some(_get_default_rules)
    /\ code_reviews = <<>>
    /\ svc_request = None
    /\ svc_result = None
    /\ svc_calls = <<>>

InitService ==
    /\ response = <<>>
    /\ file_content = ParserFile
    /\ repository = <<>>
    /\ branch = <<>>
    /\ ppc = "idle"
    /\ lines = <<>>
    /\ line_idx = 0
    /\ current_suggestion = EmptyDict
    /\ suggestions = <<>>
    /\ flushed = <<>>
    /\ pc = "start"
    /\ pr_number = 7
    /\ pr_files = <<>>
    /\ file_idx = 0
    /\ all_suggestions = <<>>
    /\ files_reviewed = 0
    /\ review_result = None
    /\ events = <<>>
    /\ (CommandLineProcess \/ WebProcess)
    /\ ClientIdle
    /\ WebhookIdle

\* main.py 177-189 and 326: a request runs process_pr_review to its end
ProcessPrReview ==
    /\ entry_point = "web"
    /\ \E pr_id \in PrIds, review \in ReviewOutcomes, fail_at \in 0..2 :
          LET out == process_pr_review(AIReviewService_attrs, credentials, code_reviews,
                                       pr_id, review, fail_at)
          IN  /\ svc_request' = Some([op |-> "process_pr_review", pr_id |-> pr_id,
                                      review |-> review, fail_at |-> fail_at])
              /\ svc_result' = Some(out.result)
              /\ code_reviews' = out.rows
              /\ svc_calls' = out.calls
    /\ UNCHANGED <<parser_vars, review_vars, entry_point, credentials, rules_file,
                   custom_rules>>
    /\ UNCHANGED client_vars
    /\ UNCHANGED webhook_vars

\* main.py 157-161: a request reads the suggestions of a pull request
GetPrSuggestions ==
    /\ entry_point = "web"
    /\ \E pr_id \in PrIds, read_fails \in BOOLEAN :
          /\ svc_request' = Some([op |-> "get_pr_suggestions", pr_id |-> pr_id,
                                  read_fails |-> read_fails])
          /\ svc_result' = Some(get_pr_suggestions(code_reviews, pr_id, read_fails))
          /\ svc_calls' = <<"db.execute">>
    /\ UNCHANGED <<parser_vars, review_vars, entry_point, credentials, rules_file,
                   custom_rules, code_reviews>>
    /\ UNCHANGED client_vars
    /\ UNCHANGED webhook_vars

NextService ==
    \/ Next
    \/ ProcessPrReview
    \/ GetPrSuggestions

SpecService == InitService /\ [][NextService]_vars


-----------------------------------------------------------------------------
(* _store_suggestions called on its own: the table, the suggestions of a
   review result and the call that raises, then the call *)

\* the suggestions a review result is made of
StoredSuggestions ==
    _parse_ai_response(JoinLines(<< <<"T","y","p","e",":"," ","b","u","g">>, <<"T","y","p","e",":"," ","s","e","c","u","r","i","t","y">>, <<"T","y","p","e",":"," ","s","t","y","l","e">> >>),
                       ParserFile, <<"o","/","r">>, <<"d","e","v">>)

SuggestionLists ==
    UNION { [1..n -> {StoredSuggestions[k] : k \in 1..Len(StoredSuggestions)}] : n \in 0..MaxLines }

\* the table before the call: empty, or with a row of an earlier run
TablesBefore == { <<>>, << CodeReview(1, 1, StoredSuggestions[1]) >> }

InitStore ==
    /\ response = <<>>
    /\ file_content = ParserFile
    /\ repository = <<>>
    /\ branch = <<>>
    /\ ppc = "idle"
    /\ lines = <<>>
    /\ line_idx = 0
    /\ current_suggestion = EmptyDict
    /\ suggestions = <<>>
    /\ flushed = <<>>
    /\ pc = "start"
    /\ pr_number = 7
    /\ pr_files = <<>>
    /\ file_idx = 0
    /\ all_suggestions = <<>>
    /\ files_reviewed = 0
    /\ review_result = None
    /\ events = <<>>
    /\ entry_point = "web"
    /\ credentials = REQUIRED_VARS
    /\ rules_file = [exists |-> FALSE, content |-> None]
    /\ custom_rules = Some(_get_default_rules)
    /\ code_reviews \in TablesBefore
    /\ \E pr_id \in PrIds, ss \in SuggestionLists, fail_at \in 0..MaxLines :
       \E fail_call \in (IF fail_at \in 1..Len(ss) THEN {"db.add", "db.commit", "db.refresh"}
                          ELSE {"db.commit"}) :
          svc_request = Some([op |-> "_store_suggestions", rows |-> code_reviews,
                              pr_id |-> pr_id, suggestions |-> ss,
                              fail_at |-> fail_at, fail_call |-> fail_call])
    /\ svc_result = None
    /\ svc_calls = <<>>
    /\ ClientIdle
    /\ WebhookIdle

\* service.py, lines 94-128
StoreSuggestions ==
    /\ svc_result = None
    /\ LET st == _store_suggestions(code_reviews, svc_request[1].pr_id,
                                    svc_request[1].suggestions, svc_request[1].fail_at,
                                    svc_request[1].fail_call)
       IN  /\ svc_result' = Some([raised |-> st.raised, stored |-> st.stored])
           /\ code_reviews' = st.rows
           /\ svc_calls' = st.calls
    /\ UNCHANGED <<parser_vars, review_vars, entry_point, credentials, rules_file,
                   custom_rules, svc_request>>
    /\ UNCHANGED client_vars
    /\ UNCHANGED webhook_vars

NextStore == StoreSuggestions

SpecStore == InitStore /\ [][NextStore]_vars

-----------------------------------------------------------------------------
(* main.py: the webhook endpoint and the review tasks it leaves behind *)

\* what a delivery turns out to be: an empty body, a body on which
\* handle_webhook raises, or one for which it returns a dict
WebhookDeliveries ==
    { [kind |-> "empty"], [kind |-> "raises"] }
      \cup { [kind |-> "handled", result |-> [success |-> ok, pr_id |-> id]] :
               ok \in BOOLEAN, id \in {None} \cup { Some(n) : n \in PrIds } }

\* lines 319: webhook_result.get("success") and webhook_result.get("pr_id")
TriggersReview(delivery) ==
    /\ delivery.kind = "handled"
    /\ delivery.result.success
    /\ delivery.result.pr_id # None

\* what github_webhook returns for a delivery
WebhookResponse(delivery) ==
    IF delivery.kind = "empty"
    THEN [status |-> "error", message |-> <<"E","m","p","t","y"," ","w","e","b","h","o","o","k"," ","p","a","y","l","o","a","d">>]
    ELSE IF delivery.kind = "raises"
    THEN [status |-> "error", message |-> <<"W","e","b","h","o","o","k"," ","p","r","o","c","e","s","s","i","n","g"," ","f","a","i","l","e","d",":"," ">>]
    ELSE [status |-> "success",
          message |-> <<"W","e","b","h","o","o","k"," ","p","r","o","c","e","s","s","e","d"," ","s","u","c","c","e","s","s","f","u","l","l","y">>,
          pr_id |-> delivery.result.pr_id,
          result |-> delivery.result,
          ai_review_triggered |-> delivery.result.success /\ delivery.result.pr_id # None]

ReviewTask(request, pr_id) == [request |-> request, pr_id |-> pr_id, state |-> "pending", result |-> None]

InitWebhook ==
    /\ response = <<>>
    /\ file_content = ParserFile
    /\ repository = <<>>
    /\ branch = <<>>
    /\ ppc = "idle"
    /\ lines = <<>>
    /\ line_idx = 0
    /\ current_suggestion = EmptyDict
    /\ suggestions = <<>>
    /\ flushed = <<>>
    /\ pc = "start"
    /\ pr_number = 7
    /\ pr_files = <<>>
    /\ file_idx = 0
    /\ all_suggestions = <<>>
    /\ files_reviewed = 0
    /\ review_result = None
    /\ events = <<>>
    /\ WebProcess
    /\ ClientIdle
    /\ WebhookIdle

\* mutant: the endpoint awaits the review run before it answers, and answers
\* with what the run returned
GithubWebhook_Awaits ==
    /\ entry_point = "web"
    /\ Len(webhook_responses) < MaxDeliveries
    /\ \E delivery \in WebhookDeliveries :
          IF TriggersReview(delivery)
          THEN LET out == process_pr_review(AIReviewService_attrs, credentials, code_reviews,
                                            delivery.result.pr_id[1], None, 0)
               IN  /\ review_tasks' = Append(review_tasks,
                          [ReviewTask(Len(webhook_responses) + 1, delivery.result.pr_id[1])
                              EXCEPT !.state = "done", !.result = Some(out.result)])
                   /\ webhook_responses' = Append(webhook_responses,
                          [WebhookResponse(delivery) EXCEPT !.result = out.result])
          ELSE /\ review_tasks' = review_tasks
               /\ webhook_responses' = Append(webhook_responses, WebhookResponse(delivery))
    /\ UNCHANGED <<parser_vars, review_vars, service_vars, client_vars>>

\* lines 276-360: one delivery is handled to the return of the endpoint; the
\* task made at line 326 has not run when the endpoint returns (nothing is
\* awaited between create_task and return)
GithubWebhook ==
    /\ entry_point = "web"
    /\ Len(webhook_responses) < MaxDeliveries
    /\ \E delivery \in WebhookDeliveries :
          /\ review_tasks' =
                 (IF TriggersReview(delivery)
                  THEN Append(review_tasks,
                              ReviewTask(Len(webhook_responses) + 1, delivery.result.pr_id[1]))
                  ELSE review_tasks)
          /\ webhook_responses' = Append(webhook_responses, WebhookResponse(delivery))
    /\ UNCHANGED <<parser_vars, review_vars, service_vars, client_vars>>

\* lines 326-337: the event loop runs a task: process_pr_review to its end,
\* then the done callback, which only logs
RunReviewTask ==
    /\ \E t \in 1..Len(review_tasks) :
          /\ review_tasks[t].state = "pending"
          /\ \E review \in ReviewOutcomes, fail_at \in 0..2 :
                LET out == process_pr_review(AIReviewService_attrs, credentials, code_reviews,
                                             review_tasks[t].pr_id, review, fail_at)
                IN  /\ review_tasks' = [review_tasks EXCEPT ![t].state = "done",
                                                            ![t].result = Some(out.result)]
                    /\ code_reviews' = out.rows
    /\ UNCHANGED <<parser_vars, review_vars, entry_point, credentials, rules_file,
                   custom_rules, svc_request, svc_result, svc_calls>>
    /\ UNCHANGED client_vars
    /\ UNCHANGED webhook_responses

NextWebhook ==
    \/ GithubWebhook
    \/ RunReviewTask

SpecWebhook == InitWebhook /\ [][NextWebhook]_vars

-----------------------------------------------------------------------------
(* The construction of CodeAnalyzer: the rules document is loaded *)

\* lines a rules document is made of
RulesLines ==
    { <<"#"," ","R","u","l","e","s">>,
      <<"1","."," ","S","h","o","r","t"," ","f","u","n","c","t","i","o","n","s">>,
      <<" "," ","-"," ","*","n","o","*"," ","m","a","g","i","c"," ","n","u","m","b","e","r","s">>,
      <<>> }

RulesTexts ==
    { JoinLines(ls) : ls \in UNION { [1..n -> RulesLines] : n \in 0..MaxLines } }

\* the document at CUSTOM_RULES_PATH: missing, there but unreadable (open or
\* read raises), or there with a text
RulesFiles ==
    { [exists |-> FALSE, content |-> None], [exists |-> TRUE, content |-> None] }
      \cup { [exists |-> TRUE, content |-> Some(t)] : t \in RulesTexts }

InitRules ==
    /\ response = <<>>
    /\ file_content = ParserFile
    /\ repository = <<>>
    /\ branch = <<>>
    /\ ppc = "idle"
    /\ lines = <<>>
    /\ line_idx = 0
    /\ current_suggestion = EmptyDict
    /\ suggestions = <<>>
    /\ flushed = <<>>
    /\ pc = "start"
    /\ pr_number = 7
    /\ pr_files = <<>>
    /\ file_idx = 0
    /\ all_suggestions = <<>>
    /\ files_reviewed = 0
    /\ review_result = None
    /\ events = <<>>
    /\ entry_point = "cli"
    /\ credentials = REQUIRED_VARS
    /\ rules_file \in RulesFiles
    /\ custom_rules = None
    /\ code_reviews = <<>>
    /\ svc_request = None
    /\ svc_result = None
    /\ svc_calls = <<>>
    /\ ClientIdle
    /\ WebhookIdle

\* CodeAnalyzer.__init__, line 24
ConstructAnalyzer ==
    /\ custom_rules = None
    /\ custom_rules' = Some(_load_custom_rules(rules_file))
    /\ UNCHANGED <<parser_vars, review_vars, entry_point, credentials, rules_file,
                   code_reviews, svc_request, svc_result, svc_calls>>
    /\ UNCHANGED client_vars
    /\ UNCHANGED webhook_vars

NextRules == ConstructAnalyzer

SpecRules == InitRules /\ [][NextRules]_vars

-----------------------------------------------------------------------------
(* get_file_diff_with_context as a process of its own: the two versions of a
   file and the size of the window, then the call *)

\* physical lines the versions of a file are built from
FileLines == { <<>>, <<"x"," ","="," ","1">>, <<"L","i","n","e"," ","9",":"," ","z">> }

\* str.split gives at least one line
FileTexts ==
    { JoinLines(ls) : ls \in UNION { [1..n -> FileLines] : n \in 1..MaxLines } }

ContextSizes == {0, 1, CONTEXT_LINES}

InitDiff ==
    /\ response = <<>>
    /\ file_content = ParserFile
    /\ repository = <<>>
    /\ branch = <<>>
    /\ ppc = "idle"
    /\ lines = <<>>
    /\ line_idx = 0
    /\ current_suggestion = EmptyDict
    /\ suggestions = <<>>
    /\ flushed = <<>>
    /\ pc = "start"
    /\ pr_number = 7
    /\ pr_files = <<>>
    /\ file_idx = 0
    /\ all_suggestions = <<>>
    /\ files_reviewed = 0
    /\ review_result = None
    /\ events = <<>>
    /\ CommandLineProcess
    /\ head_content \in {None} \cup { Some(GitHubFileContent(<<"m","a","i","n",".","p","y">>, t)) : t \in FileTexts }
    /\ base_content \in (IF head_content = None THEN {None}
                         ELSE {None} \cup { Some(GitHubFileContent(<<"m","a","i","n",".","p","y">>, t)) : t \in FileTexts })
    /\ context_window \in ContextSizes
    /\ diff_result = None
    /\ dpc = "call"
    /\ WebhookIdle

\* github_client.py, lines 114-138
GetFileDiffWithContext ==
    /\ dpc = "call"
    /\ diff_result' = get_file_diff_with_context(head_content, base_content, context_window)
    /\ dpc' = "returned"
    /\ UNCHANGED <<head_content, base_content, context_window>>
    /\ UNCHANGED <<parser_vars, review_vars, service_vars, webhook_vars>>

NextDiff == GetFileDiffWithContext

SpecDiff == InitDiff /\ [][NextDiff]_vars

-----------------------------------------------------------------------------
(* Properties of the response parser, checked under SpecParse *)

\* the physical lines of the reply that carry a Type label, plain or decorated
TypeLabelLines(resp) ==
    LET ls == SplitLines(resp)
    IN  {k \in 1..Len(ls) : StrContains(ls[k], <<"T","y","p","e",":">>) \/ StrContains(ls[k], <<"*","*","T","y","p","e","*","*",":">>)}

\* the sentinel occurs in resp in some letter case
SentinelAnyCase(resp) ==
    LET low == Lower(resp)
    IN  \E k \in 1..Len(low) :
            /\ low[k] = "c"
            /\ k + 16 <= Len(low)
            /\ SubSeq(low, k, k + 16) = <<"c","o","d","e","_","q","u","a","l","i","t","y","_","g","o","o","d">>

\* C1: every emitted record has its type and its severity in the closed
\* enumerations; a parsed type outside the enumeration gives improvement, a
\* parsed severity outside it (or none) gives medium, a member is kept, and
\* every flushed accumulator gave a record (none was dropped).
C1_EnumsClosed ==
    /\ Len(suggestions) = Len(flushed)
    /\ \A k \in 1..Len(suggestions) :
          LET s == suggestions[k]
              d == flushed[k]
          IN  /\ s.suggestion_type \in SuggestionType
              /\ s.severity \in Severity
              /\ IF d["type"] \in SuggestionType
                 THEN s.suggestion_type = d["type"]
                 ELSE s.suggestion_type = <<"i","m","p","r","o","v","e","m","e","n","t">>
              /\ IF "severity" \in DOMAIN d /\ d["severity"] \in Severity
                 THEN s.severity = d["severity"]
                 ELSE s.severity = <<"m","e","d","i","u","m">>

\* a finished parse that emitted a record for a type and a severity outside
\* the enumerations, and one for an accumulator without severity
C1_Witness ==
    /\ ppc = "done"
    /\ \E k \in 1..Len(flushed) :
          /\ flushed[k]["type"] \notin SuggestionType
          /\ "severity" \in DOMAIN flushed[k]
          /\ flushed[k]["severity"] \notin Severity
          /\ suggestions[k].suggestion_type = <<"i","m","p","r","o","v","e","m","e","n","t">>
          /\ suggestions[k].severity = <<"m","e","d","i","u","m">>
    /\ \E k \in 1..Len(flushed) : "severity" \notin DOMAIN flushed[k]

C3_SentinelShortCircuits ==
    SentinelAnyCase(response) =>
        /\ ppc \in {"start", "done"}
        /\ suggestions = <<>>
        /\ lines = <<>>
        /\ line_idx = 0
        /\ flushed = <<>>
        /\ current_suggestion = EmptyDict

\* a finished parse of a reply that holds the sentinel in mixed case after a
\* well-formed Type line
C3_Witness ==
    /\ ppc = "done"
    /\ SentinelAnyCase(response)
    /\ ~ StrContains(response, CODE_QUALITY_GOOD)
    /\ TypeLabelLines(response) # {}
    /\ suggestions = <<>>

\* text that is not a number: some character is none of a digit, a leading
\* sign, a digit-separating underscore
NonDigitText(v) ==
    \E k \in 1..Len(v) :
        /\ ~ InAlpha(DigitChars, v[k])
        /\ v[k] # "_"
        /\ ~ (k = 1 /\ v[k] \in {"+", "-"})

FileUrl(s) ==
    <<"h","t","t","p","s",":","/","/","g","i","t","h","u","b",".","c","o","m","/">> \o repository \o <<"/","b","l","o","b","/">> \o branch \o <<"/">> \o s.file_path

\* C5: the deep link of a record ends in #L<n> exactly when the record has a
\* line number n, and is the file-level link otherwise.
C5_AnchorIffLineNumber ==
    \A k \in 1..Len(suggestions) :
        LET s == suggestions[k]
        IN  IF s.line_number # None
            THEN s.github_url = FileUrl(s) \o <<"#","L">> \o IntToStr(s.line_number[1])
            ELSE s.github_url = FileUrl(s)

\* C6: the line number of an emitted record is absent or at least 1.
C6_LineNumberPositive ==
    \A k \in 1..Len(suggestions) :
        suggestions[k].line_number = None \/ suggestions[k].line_number[1] >= 1

\* the labels a line carries
FieldLabels ==
    { <<"T","y","p","e">>, <<"S","e","v","e","r","i","t","y">>, <<"T","i","t","l","e">>, <<"D","e","s","c","r","i","p","t","i","o","n">>, <<"S","u","g","g","e","s","t","i","o","n">>, <<"L","i","n","e"," ","N","u","m","b","e","r">> }

LabelsOf(line) ==
    { l \in FieldLabels :
        StrContains(line, l \o <<":">>) \/ StrContains(line, <<"*","*">> \o l \o <<"*","*",":">>) }

\* one suggestion block: every line carries one label, no label twice, one Type line
OneBlock(ls) ==
    /\ \A k \in 1..Len(ls) : Cardinality(LabelsOf(ls[k])) = 1
    /\ \A j, k \in 1..Len(ls) : j # k => LabelsOf(ls[j]) # LabelsOf(ls[k])
    /\ \E k \in 1..Len(ls) : LabelsOf(ls[k]) = { <<"T","y","p","e">> }

\* C7: the record emitted for one suggestion block is the same for every
\* ordering of the block's lines.
C7_OrderInsensitive ==
    (ppc = "done" /\ OneBlock(lines)) =>
        \A p \in Permutations(1..Len(lines)) :
            _parse_ai_response(JoinLines([k \in 1..Len(lines) |-> lines[p[k]]]),
                               file_content, repository, branch) = suggestions


-----------------------------------------------------------------------------
(* Properties of generate_review, checked under Spec *)

\* the skip rule as the specification words it
SkipRule(f) ==
    \/ f.changes >= MAX_FILE_SIZE + 1
    \/ LET name == Lower(f.filename)
       IN  \E n \in 1..Len(name) : SubSeq(name, n, Len(name)) \in binary_extensions

\* the positions of the events of one kind
EventsAt(op) == {p \in 1..Len(events) : events[p].op = op}

\* the data of the append events, concatenated in the order of the events
RECURSIVE Appended(_)
Appended(es) ==
    IF es = <<>> THEN <<>>
    ELSE Appended(SubSeq(es, 1, Len(es) - 1))
           \o (IF es[Len(es)].op = "append" THEN es[Len(es)].data ELSE <<>>)

\* C8: a file is skipped exactly when its change count is above MAX_FILE_SIZE
\* or its lower-cased name ends with a binary extension; for a skipped file no
\* content is fetched and no model call is made, nothing is added to the
\* aggregate and files_reviewed is not incremented; the run fails only when
\* the pull request cannot be fetched.
C8_SkipExactlyByRule ==
    /\ \A p \in 1..Len(events) :
          (events[p].op = "skip") <=> SkipRule(pr_files[events[p].idx])
    /\ \A i \in 1..file_idx : \E p \in 1..Len(events) : events[p].idx = i
    /\ files_reviewed = Cardinality(EventsAt("append"))
    /\ all_suggestions = Appended(events)
    /\ pc = "failed" => (pr_files = <<>> /\ events = <<>>)
    /\ pc = "done" => review_result # None

\* a finished run over a file skipped for its upper-case extension, one
\* skipped for its size and one of exactly MAX_FILE_SIZE changes that was analysed
C8_Witness ==
    /\ pc = "done"
    /\ review_result # None
    /\ \E p \in EventsAt("skip") : pr_files[events[p].idx].filename = <<"d","o","c","s","/","L","o","g","o",".","P","N","G">>
    /\ \E p \in EventsAt("skip") : pr_files[events[p].idx].changes > MAX_FILE_SIZE
    /\ \E p \in EventsAt("append") :
          /\ pr_files[events[p].idx].changes = MAX_FILE_SIZE
          /\ events[p].data # <<>>

\* C9: in the result returned, total_suggestions is the length of the
\* suggestion sequence and files_reviewed is at most the number of files
\* that were not skipped.
C9_ResultCounts ==
    pc = "done" =>
        /\ review_result # None
        /\ review_result[1].total_suggestions = Len(review_result[1].suggestions)
        /\ review_result[1].suggestions = all_suggestions
        /\ review_result[1].files_reviewed
              <= Cardinality({i \in 1..Len(pr_files) : ~ SkipRule(pr_files[i])})

\* a result with suggestions, a skipped file, and fewer files reviewed than
\* were not skipped
C9_Witness ==
    /\ pc = "done"
    /\ review_result # None
    /\ review_result[1].total_suggestions >= 2
    /\ EventsAt("skip") # {}
    /\ review_result[1].files_reviewed
          < Cardinality({i \in 1..Len(pr_files) : ~ SkipRule(pr_files[i])})

\* the types the model emitted in a reply, in the order of its Type lines
\* (a type outside the enumeration reads improvement)
RECURSIVE EmittedTypes(_)
EmittedTypes(ls) ==
    IF ls = <<>> THEN <<>>
    ELSE (IF HasLabel(Head(ls), <<"*","*","T","y","p","e","*","*",":">>, <<"T","y","p","e",":">>)
          THEN LET t == Lower(Clean(LabelValue(Head(ls), <<"*","*","T","y","p","e","*","*",":">>, <<"T","y","p","e",":">>)))
               IN  <<IF t \in SuggestionType THEN t ELSE <<"i","m","p","r","o","v","e","m","e","n","t">>>>
          ELSE <<>>) \o EmittedTypes(Tail(ls))

\* the files are taken one after another in the order of the list, and the
\* aggregate is the concatenation of what each file gave
C10_InOrder ==
    /\ \A p, q \in 1..Len(events) : p < q => events[p].idx <= events[q].idx
    /\ \A p \in 1..Len(events) : events[p].idx <= file_idx + 1
    /\ \A i \in 1..file_idx : \E p \in 1..Len(events) : events[p].idx = i
    \* a model call starts only after the call before it was appended
    /\ \A p, q \in EventsAt("llm") :
          p < q => \E a \in EventsAt("append") :
                      p < a /\ a < q /\ events[a].idx = events[p].idx
    /\ \A a \in EventsAt("append") :
          \E p \in EventsAt("llm") :
              /\ p < a
              /\ events[p].idx = events[a].idx
              /\ (events[p].data # <<>> /\ ~ SentinelAnyCase(events[p].data))
                    => Values(events[a].data, "rule_applied")
                         = EmittedTypes(SplitLines(events[p].data))
    /\ all_suggestions = Appended(events)

\* each step leaves the aggregate as it is or extends it at its end
C10_OnlyGrows ==
    /\ Len(all_suggestions) <= Len(all_suggestions')
    /\ SubSeq(all_suggestions', 1, Len(all_suggestions)) = all_suggestions
    /\ Len(events) <= Len(events')
    /\ SubSeq(events', 1, Len(events)) = events

\* C10: files are processed one after another in the order of the file list,
\* the model call for a file starting only after the suggestions of the file
\* before it were appended; the aggregate is the concatenation, in file order,
\* of each file's suggestions in the order the model emitted them; and the
\* aggregate only grows.
C10_SequentialConcatenation == [] C10_InOrder /\ [][C10_OnlyGrows]_vars

\* a finished run in which two files gave suggestions, the second of them two
C10_Witness ==
    /\ pc = "done"
    /\ \E a, b \in EventsAt("append") :
          /\ a < b
          /\ Len(events[a].data) = 1
          /\ Len(events[b].data) = 2
          /\ events[b].data[1].suggestion_type = <<"b","u","g">>
          /\ events[b].data[2].suggestion_type = <<"s","e","c","u","r","i","t","y">>
          /\ all_suggestions = events[a].data \o events[b].data

\* C11: an exception raised while one file is processed is taken inside the
\* loop: the run does not fail, the aggregate and the counter are as they were
\* before the file, every file of the list is still iterated over, and the
\* run ends with a result that holds what the other files gave.
C11_PerFileExceptionContained ==
    /\ EventsAt("raise") # {} => pc # "failed"
    /\ \A p \in EventsAt("raise") :
          /\ Appended(SubSeq(events, 1, p)) = Appended(SubSeq(events, 1, p - 1))
          /\ Len(Appended(SubSeq(events, 1, p))) <= Len(all_suggestions)
          /\ SubSeq(all_suggestions, 1, Len(Appended(SubSeq(events, 1, p))))
                = Appended(SubSeq(events, 1, p))
          /\ ~ \E a \in EventsAt("append") : events[a].idx = events[p].idx
    /\ files_reviewed = Cardinality(EventsAt("append"))
    /\ pc = "done" =>
          /\ review_result # None
          /\ review_result[1].suggestions = Appended(events)
          /\ \A i \in 1..Len(pr_files) : \E p \in 1..Len(events) : events[p].idx = i

\* a finished run of three files: the first gave a suggestion, the second
\* raised, the third was still analysed and gave two
C11_Witness ==
    /\ pc = "done"
    /\ review_result # None
    /\ Len(pr_files) = 3
    /\ \E a, r, b \in 1..Len(events) :
          /\ a < r /\ r < b
          /\ events[a].op = "append" /\ events[a].idx = 1 /\ Len(events[a].data) = 1
          /\ events[r].op = "raise" /\ events[r].idx = 2
          /\ events[b].op = "append" /\ events[b].idx = 3 /\ Len(events[b].data) = 2
    /\ Len(review_result[1].suggestions) = 3
    /\ review_result[1].files_reviewed = 2

\* C12: when the pull request cannot be fetched, generate_review returns no
\* result, and no file content was fetched, no model call was made and
\* nothing was parsed, aggregated or counted.
C12_PrInfoFailureAborts ==
    pc = "failed" =>
        /\ review_result = None
        /\ events = <<>>
        /\ pr_files = <<>>
        /\ all_suggestions = <<>>
        /\ files_reviewed = 0
        /\ ppc = "idle"
        /\ flushed = <<>>

\* the run that failed at the fetch of the pull request
C12_Witness ==
    /\ pc = "failed"
    /\ review_result = None
    /\ events = <<>>

\* C13: a file counts as reviewed only when it was analysed: a file whose
\* content fetch failed or whose model call failed adds nothing to the
\* aggregate and is not counted in files_reviewed, and the run goes on.
C13_CountsOnlyAnalyzed ==
    /\ files_reviewed = Cardinality(EventsAt("append"))
    /\ \A a \in EventsAt("append") :
          \E p \in EventsAt("llm") :
              /\ p < a
              /\ events[p].idx = events[a].idx
              /\ events[p].data # <<>>
    /\ \A p \in EventsAt("llm") :
          events[p].data = <<>> =>
              ~ \E a \in EventsAt("append") : events[a].idx = events[p].idx

\* C14: the summary of a result without suggestions is the success message
\* with the files_reviewed count and "No issues found"; otherwise it ends
\* with the critical message when a suggestion is critical, else with the
\* high-priority message when a suggestion is high, else with the generic
\* positive message.
C14_SummaryPriority ==
    pc = "done" =>
        LET r == review_result[1]
            has(sev) == \E k \in 1..Len(r.suggestions) : r.suggestions[k].severity = sev
        IN  IF r.suggestions = <<>>
            THEN /\ StrContains(r.review_summary,
                                <<"c","o","m","p","l","e","t","e","d"," ","f","o","r"," ">> \o IntToStr(r.files_reviewed) \o <<" ","f","i","l","e","s",".">>)
                 /\ StrContains(r.review_summary, <<"N","o"," ","i","s","s","u","e","s"," ","f","o","u","n","d">>)
            ELSE IF has(<<"c","r","i","t","i","c","a","l">>)
            THEN EndsWith(r.review_summary,
                          <<"C","r","i","t","i","c","a","l"," ","i","s","s","u","e","s"," ","f","o","u","n","d"," ","-"," ","i","m","m","e","d","i","a","t","e"," ","a","t","t","e","n","t","i","o","n"," ","r","e","q","u","i","r","e","d","!">>)
            ELSE IF has(<<"h","i","g","h">>)
            THEN EndsWith(r.review_summary,
                          <<"H","i","g","h"," ","p","r","i","o","r","i","t","y"," ","i","s","s","u","e","s"," ","f","o","u","n","d"," ","-"," ","r","e","v","i","e","w"," ","a","n","d"," ","a","d","d","r","e","s","s"," ","s","o","o","n",".">>)
            ELSE EndsWith(r.review_summary,
                          <<"O","v","e","r","a","l","l"," ","c","o","d","e"," ","q","u","a","l","i","t","y"," ","i","s"," ","g","o","o","d"," ","w","i","t","h"," ","m","i","n","o","r"," ","i","m","p","r","o","v","e","m","e","n","t","s"," ","s","u","g","g","e","s","t","e","d",".">>)

\* a result with a high suggestion followed by a critical one, whose summary
\* ends with the critical message
C14_Witness ==
    /\ pc = "done"
    /\ review_result # None
    /\ Len(review_result[1].suggestions) = 2
    /\ review_result[1].suggestions[1].severity = <<"h","i","g","h">>
    /\ review_result[1].suggestions[2].severity = <<"c","r","i","t","i","c","a","l">>
    /\ EndsWith(review_result[1].review_summary, <<"i","m","m","e","d","i","a","t","e"," ","a","t","t","e","n","t","i","o","n"," ","r","e","q","u","i","r","e","d","!">>)

\* the reply the model gave for the file of an append event: An empty one
\* when the model call raised
ReplyOf(a) ==
    LET p == CHOOSE q \in EventsAt("llm") :
                 q < a /\ events[q].idx = events[a].idx
    IN  events[p].data

\* the file metadata the analyzer was given for the file of an append event
FileOf(a) ==
    LET p == CHOOSE q \in EventsAt("fetch") :
                 q < a /\ events[q].idx = events[a].idx
    IN  get_file_diff_with_context(events[p].data.head, events[p].data.base, CONTEXT_LINES)[1]

\* C19: the parser has no hidden state: whatever was parsed before, a call
\* returns what the reply, the file metadata, the repository and the branch
\* determine, so two calls with the same arguments in one run return equal
\* sequences of records.
C19_ParserDeterministic ==
    /\ ( /\ pc = "analyze"
         /\ ppc = "done"
         /\ events[Len(events)].op = "llm"
         /\ events[Len(events)].data # <<>> ) =>
            suggestions = _parse_ai_response(response, file_content, repository, branch)
    /\ \A a, b \in EventsAt("append") :
          ( /\ ReplyOf(a) = ReplyOf(b)
            /\ FileOf(a).filename = FileOf(b).filename
            /\ FileOf(a).context_lines = FileOf(b).context_lines ) =>
              events[a].data = events[b].data

\* two calls with the same reply for two files of the same name, a call with
\* another reply between them, and equal records from the two
C19_Witness ==
    \E a, m, b \in EventsAt("append") :
        /\ a < m /\ m < b
        /\ ReplyOf(a) = ReplyOf(b)
        /\ ReplyOf(m) # ReplyOf(a)
        /\ events[m].data # <<>>
        /\ pr_files[events[a].idx] # pr_files[events[b].idx]
        /\ FileOf(a).filename = FileOf(b).filename
        /\ FileOf(a).context_lines = FileOf(b).context_lines
        /\ Len(events[a].data) = 2
        /\ events[a].data = events[b].data

-----------------------------------------------------------------------------
(* Properties of the construction of CodeAnalyzer, checked under SpecRules *)

\* C20: the construction always gets a rules text: the text of the document
\* when the document is there and can be read, and the built-in default
\* rules, which are not empty, when it is missing or reading it raises.
C20_RulesFallback ==
    /\ _get_default_rules # <<>>
    /\ custom_rules = None => ENABLED ConstructAnalyzer
    /\ custom_rules # None =>
          IF rules_file.exists /\ rules_file.content # None
          THEN custom_rules[1] = rules_file.content[1]
          ELSE custom_rules[1] = _get_default_rules

\* an analyzer constructed with a document that is there but cannot be read
C20_Witness ==
    /\ rules_file.exists
    /\ rules_file.content = None
    /\ custom_rules = Some(_get_default_rules)

-----------------------------------------------------------------------------
(* Properties of AIReviewService, checked under SpecService *)

\* the request served last was a process_pr_review
Processed == svc_request # None /\ svc_request[1].op = "process_pr_review"

\* the pull request of the request served last is stored with a repository
\* of the form owner/name
StoredAsOwnerName ==
    LET pr == PullRequestRow(svc_request[1].pr_id)
    IN  pr # None /\ Len(Split(pr[1].repository, "/")) = 2

\* C15: with a required credential missing, process_pr_review makes no
\* network call and no database read, and what it returns is the failure of
\* the configuration validation, not the failure of a runtime exception.
C15_MissingCredentialFailsFast ==
    (Processed /\ ~ validate(credentials)) =>
        /\ svc_calls = <<>>
        /\ svc_result[1] = Failure(ConfigInvalid)
        /\ svc_result[1].error # NoConfigAttribute

\* C16: with valid credentials, a stored pull request whose repository is
\* owner/name, a review with suggestions and a store that works,
\* process_pr_review stores every suggestion under the pull request, returns
\* success with one identifier per suggestion, and get_pr_suggestions gives
\* those suggestions back.
C16_StoredAndReadBack ==
    ( /\ Processed
      /\ validate(credentials)
      /\ StoredAsOwnerName
      /\ svc_request[1].review # None
      /\ svc_request[1].review[1].suggestions # <<>>
      /\ svc_request[1].fail_at = 0 ) =>
        LET ss == svc_request[1].review[1].suggestions
            mine == SelectSeq(code_reviews,
                              LAMBDA row : row.pull_request_id = svc_request[1].pr_id)
        IN  /\ svc_result[1].success
            /\ Len(svc_result[1].data.suggestions) = Len(ss)
            /\ \A j, k \in 1..Len(ss) :
                  j # k => svc_result[1].data.suggestions[j].id
                             # svc_result[1].data.suggestions[k].id
            /\ Len(mine) = Len(ss)
            /\ \A k \in 1..Len(ss) : mine[k].title = ss[k].title
            /\ get_pr_suggestions(code_reviews, svc_request[1].pr_id, FALSE)
                  = svc_result[1].data.suggestions

C18_NeverPropagates ==
    /\ Processed =>
          LET r == svc_result[1]
          IN  /\ "success" \in DOMAIN r
              /\ r.success \in BOOLEAN
              /\ ~ r.success => (DOMAIN r = {"success", "error"} /\ r.error # <<>>)
              /\ r.success => DOMAIN r = {"success", "message", "data"}
    /\ pc \in {"start", "loop", "analyze", "done", "failed"}
    /\ pc = "done" =>
          /\ review_result # None
          /\ DOMAIN review_result[1] = {"pull_request_id", "suggestions", "total_suggestions",
                                       "files_reviewed", "review_summary"}
    /\ pc # "done" => review_result = None

\* process_pr_review returned for a pull request stored with a malformed
\* repository name, with a review and a failing store at hand
C18_Witness ==
    /\ Processed
    /\ svc_request[1].pr_id = 2
    /\ svc_request[1].review # None
    /\ svc_request[1].fail_at = 1
    /\ svc_result[1].success = FALSE
    /\ svc_result[1].error # <<>>

-----------------------------------------------------------------------------
(* Properties of the diff of a file, checked under Spec and SpecDiff *)

\* the fetches of files whose new version came and whose old version did not
FetchedWithoutBase ==
    {k \in 1..Len(events) :
        /\ events[k].op = "fetch"
        /\ events[k].data.head # None
        /\ events[k].data.base = None}

\* C21: a file whose old version cannot be retrieved while the new one can
\* is handed to the analyzer with its current content and with no changed
\* lines and no context; the fetch is followed by the analysis of that file,
\* not by the next file, and every file whose analysis returned is counted.
C21_MissingBaseStillReviewed ==
    /\ \A k \in FetchedWithoutBase :
          IF k = Len(events)
          THEN /\ pc = "analyze"
               /\ file_idx + 1 = events[k].idx
               /\ file_content.content = events[k].data.head[1].content
               /\ file_content.diff_lines = <<>>
               /\ file_content.context_lines = <<>>
          ELSE /\ events[k + 1].idx = events[k].idx
               /\ events[k + 1].op \in {"llm", "raise"}
    /\ files_reviewed = Cardinality({k \in 1..Len(events) : events[k].op = "append"})

C21_Witness ==
    /\ pc = "done"
    /\ files_reviewed = 1
    /\ \E k \in FetchedWithoutBase : \E j \in (k + 1)..Len(events) :
          /\ events[j].op = "append"
          /\ events[j].idx = events[k].idx
          /\ events[j].data # <<>>
          /\ \A n \in 1..Len(events[j].data) : events[j].data[n].context_lines = <<>>

\* the call of get_file_diff_with_context has returned with both versions there
Diffed == dpc = "returned" /\ head_content # None /\ base_content # None

\* the 1-based positions within both versions where the lines differ
ChangedPositions ==
    LET new == SplitLines(head_content[1].content)
        old == SplitLines(base_content[1].content)
    IN  {i \in 1..Len(new) : i <= Len(old) /\ new[i] # old[i]}

\* the k-th smallest member of a set of numbers
Nth(S, k) == CHOOSE i \in S : Cardinality({j \in S : j < i}) = k - 1

\* C22: the changed lines are, in ascending order, one descriptor for
\* exactly the 1-based positions within both versions where the new line
\* differs from the old one, each with the position and the new line's text;
\* no position beyond the shorter version, none for identical versions.
C22_ChangedLinesPositional ==
    Diffed =>
        LET new == SplitLines(head_content[1].content)
            d == diff_result[1].diff_lines
        IN  /\ Len(d) = Cardinality(ChangedPositions)
            /\ \A k \in 1..Len(d) :
                  d[k] = <<"L","i","n","e"," ">> \o IntToStr(Nth(ChangedPositions, k)) \o <<":"," ">>
                         \o new[Nth(ChangedPositions, k)]
            /\ (head_content[1].content = base_content[1].content => d = <<>>)

C22_Witness ==
    /\ Diffed
    /\ Len(SplitLines(head_content[1].content)) = 3
    /\ Len(SplitLines(base_content[1].content)) = 2
    /\ ChangedPositions = {2}
    /\ SplitLines(head_content[1].content)[3] # <<>>
    /\ Len(diff_result[1].diff_lines) = 1

\* the entries of the context for the changed line n of a file: lines
\* max(1, n - c) .. min(L, n + c), line n marked, then the delimiter
RECURSIVE WindowEntries(_, _, _, _)
WindowEntries(text, n, m, last) ==
    IF m > last THEN << <<"-","-","-">> >>
    ELSE << (IF m = n THEN <<">",">",">"," ">> ELSE <<" "," "," "," ">>) \o <<"L","i","n","e"," ">> \o IntToStr(m) \o <<":"," ">> \o text[m] >>
         \o WindowEntries(text, n, m + 1, last)

RECURSIVE WindowsFrom(_, _, _, _)
WindowsFrom(text, changed, c, k) ==
    IF k > Cardinality(changed) THEN <<>>
    ELSE LET n == Nth(changed, k)
             first == IF n - c < 1 THEN 1 ELSE n - c
             last == IF n + c > Len(text) THEN Len(text) ELSE n + c
         IN  WindowEntries(text, n, first, last) \o WindowsFrom(text, changed, c, k + 1)

\* C23: for each changed line n of a file of L lines and a window of c, the
\* context holds lines max(1, n - c) .. min(L, n + c) in order, line n with
\* the marker of a changed line and the others with that of a neighbour,
\* then one delimiter; as many delimiters as changed lines.
C23_ContextWindows ==
    Diffed =>
        LET r == diff_result[1].context_lines
        IN  /\ r = WindowsFrom(SplitLines(head_content[1].content), ChangedPositions,
                                context_window, 1)
            /\ Cardinality({k \in 1..Len(r) : r[k] = <<"-","-","-">>}) = Cardinality(ChangedPositions)

C23_Witness ==
    /\ Diffed
    /\ context_window = 1
    /\ ChangedPositions = {1, 3}
    /\ Len(SplitLines(head_content[1].content)) = 3
    /\ Len(diff_result[1].context_lines) = 6

-----------------------------------------------------------------------------
(* Properties of the line scan of the parser, checked under SpecParse *)

\* C24: whatever label a value was stored under, the stored value carries no
\* emphasis marker and no surrounding whitespace (so that a decorated line
\* number such as "**Line Number:** 12" is stored as "12").
C24_ValuesCleaned ==
    \A key \in DOMAIN current_suggestion :
        current_suggestion[key] = Strip(RemoveStars(current_suggestion[key]))

\* what one line alone puts into an empty accumulator
LineDict(line) == ScanLine(ScanStart, line, file_content, repository, branch).cur

\* what each of the lines scanned so far puts into an empty accumulator
ScannedDicts == [k \in 1..line_idx |-> LineDict(lines[k])]

\* the lines among them that start a suggestion
TypeLinesIn(ds) == {k \in 1..Len(ds) : "type" \in DOMAIN ds[k]}

\* the lines of the i-th suggestion: from its Type line up to the line before
\* the next Type line
BlockLines(ds, i) ==
    LET starts == TypeLinesIn(ds)
        first == CHOOSE k \in starts : Cardinality({j \in starts : j < k}) = i - 1
        later == {k \in starts : k > first}
        last == IF later = {} THEN Len(ds)
                ELSE (CHOOSE k \in later : \A j \in later : k <= j) - 1
    IN  first..last

\* d holds exactly the keys the lines ks set, each with the value of the last
\* of the lines that set it
LastValueWins(d, ds, ks) ==
    /\ DOMAIN d = UNION { DOMAIN ds[k] : k \in ks }
    /\ \A key \in DOMAIN d :
          LET setters == {k \in ks : key \in DOMAIN ds[k]}
              last == CHOOSE k \in setters : \A j \in setters : j <= k
          IN  d[key] = ds[last][key]

\* C25: the scan is in one of two states, in a suggestion or not.  Every Type
\* line after the first hands the accumulator on and starts one that holds
\* the new type only, the end of the input hands the last one on once, and
\* the i-th accumulator handed on (and the record made of it) holds only
\* values of the lines from the i-th Type line up to the next, the last
\* value of a key winning: no field passes from one suggestion to another.
C25_NoFieldLeaks ==
    LET ds == ScannedDicts
        n == Cardinality(TypeLinesIn(ds))
    IN  /\ Len(flushed) = (IF ppc = "done" \/ n = 0 THEN n ELSE n - 1)
        /\ Len(suggestions) = Len(flushed)
        /\ \A i \in 1..Len(flushed) :
              /\ LastValueWins(flushed[i], ds, BlockLines(ds, i))
              /\ suggestions[i] = SuggestionFromDict(flushed[i], file_content, repository, branch)
        /\ (ppc = "scan" /\ n > 0) => LastValueWins(current_suggestion, ds, BlockLines(ds, n))
        /\ (ppc = "scan" /\ n = 0) => "type" \notin DOMAIN current_suggestion

\* a severity in the first of two suggestions and none in the second
C25_Witness ==
    /\ ppc = "done"
    /\ Len(lines) = 3
    /\ TypeLinesIn(ScannedDicts) = {1, 3}
    /\ DOMAIN flushed[1] = {"type", "severity"}
    /\ DOMAIN flushed[2] = {"type"}
    /\ suggestions[1].severity = <<"c","r","i","t","i","c","a","l">>
    /\ suggestions[2].severity = <<"m","e","d","i","u","m">>

\* the labels in the order in which the scan tests for them, each with the
\* key it is stored under
LabelOrder ==
    << [label |-> <<"T","y","p","e">>, key |-> "type"],
       [label |-> <<"S","e","v","e","r","i","t","y">>, key |-> "severity"],
       [label |-> <<"T","i","t","l","e">>, key |-> "title"],
       [label |-> <<"D","e","s","c","r","i","p","t","i","o","n">>, key |-> "description"],
       [label |-> <<"S","u","g","g","e","s","t","i","o","n">>, key |-> "suggestion"],
       [label |-> <<"L","i","n","e"," ","N","u","m","b","e","r">>, key |-> "line_number"] >>

\* the key of the first label in that order among the labels of a line
KeyByPrecedence(line) ==
    LET found == {p \in 1..Len(LabelOrder) : LabelOrder[p].label \in LabelsOf(line)}
    IN  LabelOrder[CHOOSE p \in found : \A q \in found : p <= q].key

\* C28: the scan of one physical line changes at most one key, that of the
\* first of Type, Severity, Title, Description, Suggestion, Line Number whose
\* label occurs anywhere in the line; a line without label changes nothing;
\* a line with a Type label anywhere, also inside the text of a title or a
\* description, is a suggestion boundary: the accumulator is handed on if it
\* holds a type, and the new one holds the type only.
C28_OneKeyByPrecedence ==
    [][ (ppc = "scan" /\ line_idx' = line_idx + 1) =>
          LET line == Strip(lines[line_idx + 1])
          IN  IF LabelsOf(line) = {}
              THEN UNCHANGED <<current_suggestion, suggestions, flushed>>
              ELSE IF KeyByPrecedence(line) = "type"
              THEN /\ DOMAIN current_suggestion' = {"type"}
                   /\ flushed' = (IF "type" \in DOMAIN current_suggestion
                                  THEN Append(flushed, current_suggestion) ELSE flushed)
              ELSE /\ DOMAIN current_suggestion' =
                          (DOMAIN current_suggestion) \cup {KeyByPrecedence(line)}
                   /\ \A k \in (DOMAIN current_suggestion) \ {KeyByPrecedence(line)} :
                          current_suggestion'[k] = current_suggestion[k]
                   /\ UNCHANGED <<suggestions, flushed>> ]_vars

\* a title whose text holds a Type label ended the suggestion before it and
\* started one without title; a line without label stands in the reply too
C28_Witness ==
    /\ ppc = "done"
    /\ Len(lines) = 3
    /\ LabelsOf(lines[2]) = { <<"T","i","t","l","e">>, <<"T","y","p","e">> }
    /\ LabelsOf(lines[3]) = {}
    /\ Len(flushed) = 2
    /\ flushed[2] = DictPut(EmptyDict, "type", <<"b","u","g">>)

-----------------------------------------------------------------------------
(* Properties of the parser when the record construction raises, checked
   under SpecParseFaults *)

\* s holds members of t in the order of t
RECURSIVE IsSubsequence(_, _)
IsSubsequence(s, t) ==
    IF s = <<>> THEN TRUE
    ELSE IF t = <<>> THEN FALSE
    ELSE IF Head(s) = Head(t) THEN IsSubsequence(Tail(s), Tail(t))
    ELSE IsSubsequence(s, Tail(t))

\* the records of the accumulators handed to the construction so far
RecordsOfFlushed ==
    [k \in 1..Len(flushed) |-> SuggestionFromDict(flushed[k], file_content, repository, branch)]

\* C26: a suggestion whose record construction raises is dropped and nothing
\* else: the call goes on (it does not raise), the records returned are
\* records of accumulators handed on, in their order; a record once in the
\* list stays; and every suggestion of the reply is handed to the
\* construction, those after a failed one too.
C26_FailedFlushDropped ==
    /\ [](/\ IsSubsequence(suggestions, RecordsOfFlushed)
          /\ (ppc = "done" /\ ~ SentinelAnyCase(response))
                => Len(flushed) = Cardinality(TypeLabelLines(response)))
    /\ [][ppc = "scan" =>
            \/ suggestions' = suggestions
            \/ /\ Len(flushed') = Len(flushed) + 1
               /\ suggestions' = Append(suggestions, RecordsOfFlushed'[Len(flushed')])]_vars

\* three suggestions of which the second was dropped
C26_Witness ==
    /\ ppc = "done"
    /\ Len(flushed) = 3
    /\ Len(suggestions) = 2
    /\ suggestions[1] = RecordsOfFlushed[1]
    /\ suggestions[2] = RecordsOfFlushed[3]
    /\ RecordsOfFlushed[2] \notin {RecordsOfFlushed[1], RecordsOfFlushed[3]}

-----------------------------------------------------------------------------
(* Properties of the webhook endpoint, checked under SpecWebhook *)

\* the deliveries whose handling succeeded and gave a pull request id
Triggering ==
    {k \in 1..Len(webhook_responses) :
        /\ webhook_responses[k].status = "success"
        /\ webhook_responses[k].result.success
        /\ webhook_responses[k].pr_id # None}

\* C27: a review run is started for exactly the deliveries whose handling
\* succeeded and gave a pull request id, once for each; the endpoint has
\* returned while the run has not yet run; what a delivery was answered is
\* never changed afterwards, whether the run ends well or fails; and a run
\* that has ended, failed or not, is not started again.
C27_DetachedReviewRun ==
    /\ [](/\ \A t \in 1..Len(review_tasks) :
                /\ review_tasks[t].request \in Triggering
                /\ Some(review_tasks[t].pr_id) = webhook_responses[review_tasks[t].request].pr_id
          /\ \A k \in Triggering :
                Cardinality({t \in 1..Len(review_tasks) : review_tasks[t].request = k}) = 1)
    /\ [][/\ \A k \in 1..Len(webhook_responses) :
                /\ k <= Len(webhook_responses')
                /\ webhook_responses'[k] = webhook_responses[k]
          /\ \A t \in 1..Len(review_tasks') :
                review_tasks'[t].request > Len(webhook_responses)
                    => review_tasks'[t].state = "pending"
          /\ \A t \in 1..Len(review_tasks) :
                /\ t <= Len(review_tasks')
                /\ review_tasks[t].state = "done" => review_tasks'[t] = review_tasks[t]]_vars

\* a delivery answered with success whose run has failed since, and a
\* delivery that started no run
C27_Witness ==
    /\ Len(webhook_responses) = 2
    /\ Triggering = {1}
    /\ webhook_responses[1].ai_review_triggered
    /\ Len(review_tasks) = 1
    /\ review_tasks[1].state = "done"
    /\ review_tasks[1].result[1].success = FALSE

-----------------------------------------------------------------------------
(* Properties of the file path of a suggestion, checked under Spec *)

\* C29: every suggestion made for a file of the pull request carries the
\* path of the file as the pull request lists it, directories included, and
\* its link is built from that path.
C29_PathAsListed ==
    \A a \in EventsAt("append") : \A n \in 1..Len(events[a].data) :
        LET path == pr_files[events[a].idx].filename
            s == events[a].data[n]
            url == <<"h","t","t","p","s",":","/","/","g","i","t","h","u","b",".","c","o","m","/">> \o repository \o <<"/","b","l","o","b","/">> \o branch
                     \o <<"/">> \o path
        IN  /\ s.file_path = path
            /\ Len(s.github_url) >= Len(url)
            /\ SubSeq(s.github_url, 1, Len(url)) = url

-----------------------------------------------------------------------------
(* Properties of _store_suggestions, checked under SpecStore *)

\* the rows the call has added to the table
RowsAdded == SubSeq(code_reviews, Len(svc_request[1].rows) + 1, Len(code_reviews))

\* row is suggestion s as stored for the pull request of the call
RowOf(row, s) ==
    /\ row.pull_request_id = svc_request[1].pr_id
    /\ SuggestionDict(row) = SuggestionDict(CodeReview(row.id, row.pull_request_id, s))

\* C30: the suggestions are stored one at a time, each committed before the
\* next is added, in the order of the review result.  When the add or the
\* commit of suggestion k raises, the k - 1 suggestions before it stay
\* stored, neither it nor a later one is stored, the session is rolled back
\* once and the exception is raised again; when reading row k back raises,
\* row k stays too.  The rows added are always the rows of a prefix of the
\* suggestions, and the rows that were there before are as they were.
C30_StoredPrefix ==
    svc_result # None =>
        LET req == svc_request[1]
            n == Len(req.suggestions)
            failed == req.fail_at \in 1..n
            adds == {j \in 1..Len(svc_calls) : svc_calls[j] = "db.add"}
        IN  /\ SubSeq(code_reviews, 1, Len(req.rows)) = req.rows
            /\ Len(RowsAdded) <= n
            /\ \A k \in 1..Len(RowsAdded) : RowOf(RowsAdded[k], req.suggestions[k])
            /\ svc_result[1].raised = failed
            /\ ~ failed => (Len(RowsAdded) = n /\ svc_result[1].stored = RowsAdded)
            /\ failed =>
                  /\ Len(RowsAdded) = (IF req.fail_call = "db.refresh" THEN req.fail_at
                                       ELSE req.fail_at - 1)
                  /\ svc_calls[Len(svc_calls)] = "db.rollback"
                  /\ Cardinality({j \in 1..Len(svc_calls) : svc_calls[j] = "db.rollback"}) = 1
            /\ \A i, j \in adds :
                  i < j => \E c \in (i + 1)..(j - 1) : svc_calls[c] = "db.commit"

\* the commit of the second of three suggestions raised: the first is stored
\* after the row of an earlier run, the third was never added
C30_Witness ==
    /\ svc_result # None
    /\ Len(svc_request[1].suggestions) = 3
    /\ svc_request[1].fail_at = 2
    /\ svc_request[1].fail_call = "db.commit"
    /\ svc_request[1].rows # <<>>
    /\ svc_result[1].raised
    /\ Len(code_reviews) = 2
    /\ svc_request[1].suggestions[1] # svc_request[1].suggestions[2]

=============================================================================
